---------------------------- MODULE Spec2Model ----------------------------
(***************************************************************************)
(* Model of the NFTMarketplace contract of src/project.py.                 *)
(*                                                                         *)
(* The contract storage (self.data) is the variable data.  Every entry     *)
(* point is an operator that takes the storage and the call context        *)
(* (sp.sender, sp.amount, sp.now, the parameters) and returns the outcome  *)
(* of the call: the new storage, the failure reason ("ok" when every       *)
(* assert passed) and the transfers emitted with sp.send.  A failed assert *)
(* aborts the call: the host keeps the storage of before the call and      *)
(* returns the attached amount.  sp.emit events are not modelled.          *)
(***************************************************************************)
EXTENDS Integers, Sequences, FiniteSets, TLC

VARIABLES
    data,       \* self.data, the contract storage
    now,        \* sp.now, the time of the host
    ops,        \* transfers emitted by sp.send and not yet executed
    attached,   \* sum of sp.amount over all accepted calls
    received,   \* address -> amount delivered to it by withdraw transfers
    fees_paid,  \* amount delivered by withdraw_fees transfers
    credited    \* address -> total ever credited to its pending balance

vars == <<data, now, ops, attached, received, fees_paid, credited>>

------------------------------------------------------------------------------
(* Bounds of the model *)

MaxTokens == 2         \* ids issued in a run
MaxTime == 1           \* sp.now ranges over 0..MaxTime
MaxAttached == 102     \* value attached to accepted calls of the market
MaxAttachedAll == 51   \* value attached to accepted calls of all entry points
MaxAttachedOffers == 152  \* value attached to accepted calls of the offer book
MaxInFlight == 1       \* emitted transfers awaiting execution
MaxMinted == 3         \* ids issued in a run without supply cap

------------------------------------------------------------------------------
(* Addresses, amounts and other inputs of the calls *)

NoAddr == "none"
BurnAddress == "tz1Ke2h7sDdakHJQh8WX4Z372du1KChsksyU"
Addrs == {"admin", "alice", "bob"}

InitAdmin == "admin"
InitFee == 5
InitMintPrice == 1
InitMinSalePrice == 50
InitMaxMetadataLength == 10
NoSupplyCap == 0
SingleSupply == 1
EdgeSupply == 2
TestSupply == 3

EmptyMap == [x \in {} |-> 0]

Put(f, k, v) == [x \in (DOMAIN f) \cup {k} |-> IF x = k THEN v ELSE f[x]]

Del(f, k) == [x \in (DOMAIN f) \ {k} |-> f[x]]

Fail(d, msg) == [data |-> d, err |-> msg, ops |-> << >>]

Done(d, sent) == [data |-> d, err |-> "ok", ops |-> sent]

------------------------------------------------------------------------------
(* Private functions *)

add_pending_overwrites(d, recipient, amount) ==
    IF amount > 0
    THEN IF recipient \in DOMAIN d.pending_payments
         THEN [d EXCEPT !.pending_payments[recipient] = amount]
         ELSE [d EXCEPT !.pending_payments = Put(@, recipient, amount)]
    ELSE d

add_pending_keeps_zero_entries(d, recipient, amount) ==
    IF amount >= 0
    THEN IF recipient \in DOMAIN d.pending_payments
         THEN [d EXCEPT !.pending_payments[recipient] = @ + amount]
         ELSE [d EXCEPT !.pending_payments = Put(@, recipient, amount)]
    ELSE d

add_pending(d, recipient, amount) ==
    IF amount > 0
    THEN IF recipient \in DOMAIN d.pending_payments
         THEN [d EXCEPT !.pending_payments[recipient] = @ + amount]
         ELSE [d EXCEPT !.pending_payments = Put(@, recipient, amount)]
    ELSE d

split_tokens(amount, quantity, division) == (amount * quantity) \div division

------------------------------------------------------------------------------
(* Entry points *)

mint_late_supply_check(d, sender, amount, time, metadata, royalty_percent) ==
    IF d.paused THEN Fail(d, "MINT: Contract paused")
    ELSE IF amount # d.mint_price THEN Fail(d, "MINT: Invalid amount")
    ELSE IF ~(Len(metadata) > 0) THEN Fail(d, "MINT: Empty metadata")
    ELSE IF ~(Len(metadata) <= d.max_metadata_length)
         THEN Fail(d, "MINT: Metadata too long")
    ELSE IF ~(royalty_percent <= 50) THEN Fail(d, "MINT: Royalty too high")
    ELSE LET token == [metadata |-> metadata, author |-> sender,
                       owner |-> sender, price |-> 0, for_sale |-> FALSE,
                       royalty_percent |-> royalty_percent,
                       created_at |-> time]
             d1 == [d EXCEPT !.tokens = Put(@, d.next_id, token),
                             !.next_id = @ + 1,
                             !.collected_fees = @ + amount]
         IN IF d.max_supply > 0 /\ ~(d1.next_id <= d.max_supply)
            THEN Fail(d1, "MINT: Max supply reached")
            ELSE Done(d1, << >>)

mint_accepts_overpayment(d, sender, amount, time, metadata, royalty_percent) ==
    IF d.paused THEN Fail(d, "MINT: Contract paused")
    ELSE IF ~(amount >= d.mint_price) THEN Fail(d, "MINT: Invalid amount")
    ELSE IF ~(Len(metadata) > 0) THEN Fail(d, "MINT: Empty metadata")
    ELSE IF ~(Len(metadata) <= d.max_metadata_length)
         THEN Fail(d, "MINT: Metadata too long")
    ELSE IF ~(royalty_percent <= 50) THEN Fail(d, "MINT: Royalty too high")
    ELSE IF d.max_supply > 0 /\ ~(d.next_id < d.max_supply)
         THEN Fail(d, "MINT: Max supply reached")
    ELSE LET token == [metadata |-> metadata, author |-> sender,
                       owner |-> sender, price |-> 0, for_sale |-> FALSE,
                       royalty_percent |-> royalty_percent,
                       created_at |-> time]
         IN Done([d EXCEPT !.tokens = Put(@, d.next_id, token),
                           !.next_id = @ + 1,
                           !.collected_fees = @ + amount], << >>)

mint_supply_counts_live(d, sender, amount, time, metadata, royalty_percent) ==
    IF d.paused THEN Fail(d, "MINT: Contract paused")
    ELSE IF amount # d.mint_price THEN Fail(d, "MINT: Invalid amount")
    ELSE IF ~(Len(metadata) > 0) THEN Fail(d, "MINT: Empty metadata")
    ELSE IF ~(Len(metadata) <= d.max_metadata_length)
         THEN Fail(d, "MINT: Metadata too long")
    ELSE IF ~(royalty_percent <= 50) THEN Fail(d, "MINT: Royalty too high")
    ELSE IF d.max_supply > 0 /\ ~(Cardinality(DOMAIN d.tokens) < d.max_supply)
         THEN Fail(d, "MINT: Max supply reached")
    ELSE LET token == [metadata |-> metadata, author |-> sender,
                       owner |-> sender, price |-> 0, for_sale |-> FALSE,
                       royalty_percent |-> royalty_percent,
                       created_at |-> time]
         IN Done([d EXCEPT !.tokens = Put(@, d.next_id, token),
                           !.next_id = @ + 1,
                           !.collected_fees = @ + amount], << >>)

mint_reuses_free_id(d, sender, amount, time, metadata, royalty_percent) ==
    IF d.paused THEN Fail(d, "MINT: Contract paused")
    ELSE IF amount # d.mint_price THEN Fail(d, "MINT: Invalid amount")
    ELSE IF ~(Len(metadata) > 0) THEN Fail(d, "MINT: Empty metadata")
    ELSE IF ~(Len(metadata) <= d.max_metadata_length)
         THEN Fail(d, "MINT: Metadata too long")
    ELSE IF ~(royalty_percent <= 50) THEN Fail(d, "MINT: Royalty too high")
    ELSE IF d.max_supply > 0 /\ ~(d.next_id < d.max_supply)
         THEN Fail(d, "MINT: Max supply reached")
    ELSE LET free == (0 .. d.next_id) \ DOMAIN d.tokens
             token_id == CHOOSE t \in free : \A u \in free : t <= u
             token == [metadata |-> metadata, author |-> sender,
                       owner |-> sender, price |-> 0, for_sale |-> FALSE,
                       royalty_percent |-> royalty_percent,
                       created_at |-> time]
         IN Done([d EXCEPT !.tokens = Put(@, token_id, token),
                           !.next_id = @ + 1,
                           !.collected_fees = @ + amount], << >>)

mint(d, sender, amount, time, metadata, royalty_percent) ==
    IF d.paused THEN Fail(d, "MINT: Contract paused")
    ELSE IF amount # d.mint_price THEN Fail(d, "MINT: Invalid amount")
    ELSE IF ~(Len(metadata) > 0) THEN Fail(d, "MINT: Empty metadata")
    ELSE IF ~(Len(metadata) <= d.max_metadata_length)
         THEN Fail(d, "MINT: Metadata too long")
    ELSE IF ~(royalty_percent <= 50) THEN Fail(d, "MINT: Royalty too high")
    ELSE IF d.max_supply > 0 /\ ~(d.next_id < d.max_supply)
         THEN Fail(d, "MINT: Max supply reached")
    ELSE LET token_id == d.next_id
             token == [metadata |-> metadata,
                       author |-> sender,
                       owner |-> sender,
                       price |-> 0,
                       for_sale |-> FALSE,
                       royalty_percent |-> royalty_percent,
                       created_at |-> time]
         IN Done([d EXCEPT !.tokens = Put(@, token_id, token),
                           !.next_id = @ + 1,
                           !.collected_fees = @ + amount], << >>)

list_for_sale_no_floor(d, sender, amount, token_id, price) ==
    IF d.paused THEN Fail(d, "LIST: Contract paused")
    ELSE IF amount # 0 THEN Fail(d, "LIST: No tez expected")
    ELSE IF token_id \notin DOMAIN d.tokens THEN Fail(d, "LIST: Token not found")
    ELSE LET token == d.tokens[token_id] IN
         IF token.owner # sender THEN Fail(d, "LIST: Not owner")
         ELSE IF token.for_sale THEN Fail(d, "LIST: Already listed")
         ELSE Done([d EXCEPT !.tokens[token_id] =
                        [token EXCEPT !.price = price, !.for_sale = TRUE]],
                   << >>)

list_for_sale(d, sender, amount, token_id, price) ==
    IF d.paused THEN Fail(d, "LIST: Contract paused")
    ELSE IF amount # 0 THEN Fail(d, "LIST: No tez expected")
    ELSE IF token_id \notin DOMAIN d.tokens THEN Fail(d, "LIST: Token not found")
    ELSE IF ~(price >= d.min_sale_price)
         THEN Fail(d, "LIST: Price below minimum")
    ELSE LET token == d.tokens[token_id] IN
         IF token.owner # sender THEN Fail(d, "LIST: Not owner")
         ELSE IF token.for_sale THEN Fail(d, "LIST: Already listed")
         ELSE Done([d EXCEPT !.tokens[token_id] =
                        [token EXCEPT !.price = price, !.for_sale = TRUE]],
                   << >>)

update_price_lists_unlisted(d, sender, amount, token_id, new_price) ==
    IF d.paused THEN Fail(d, "UPDATE: Contract paused")
    ELSE IF amount # 0 THEN Fail(d, "UPDATE: No tez expected")
    ELSE IF token_id \notin DOMAIN d.tokens
         THEN Fail(d, "UPDATE: Token not found")
    ELSE IF ~(new_price >= d.min_sale_price)
         THEN Fail(d, "UPDATE: Price below minimum")
    ELSE LET token == d.tokens[token_id] IN
         IF token.owner # sender THEN Fail(d, "UPDATE: Not owner")
         ELSE Done([d EXCEPT !.tokens[token_id] =
                        [token EXCEPT !.price = new_price]], << >>)

update_price(d, sender, amount, token_id, new_price) ==
    IF d.paused THEN Fail(d, "UPDATE: Contract paused")
    ELSE IF amount # 0 THEN Fail(d, "UPDATE: No tez expected")
    ELSE IF token_id \notin DOMAIN d.tokens
         THEN Fail(d, "UPDATE: Token not found")
    ELSE IF ~(new_price >= d.min_sale_price)
         THEN Fail(d, "UPDATE: Price below minimum")
    ELSE LET token == d.tokens[token_id] IN
         IF token.owner # sender THEN Fail(d, "UPDATE: Not owner")
         ELSE IF ~token.for_sale THEN Fail(d, "UPDATE: Not listed")
         ELSE Done([d EXCEPT !.tokens[token_id] =
                        [token EXCEPT !.price = new_price]], << >>)

cancel_sale_keeps_price(d, sender, amount, token_id) ==
    IF amount # 0 THEN Fail(d, "CANCEL: No tez expected")
    ELSE IF token_id \notin DOMAIN d.tokens
         THEN Fail(d, "CANCEL: Token not found")
    ELSE LET token == d.tokens[token_id] IN
         IF token.owner # sender THEN Fail(d, "CANCEL: Not owner")
         ELSE IF ~token.for_sale THEN Fail(d, "CANCEL: Not listed")
         ELSE Done([d EXCEPT !.tokens[token_id] =
                        [token EXCEPT !.for_sale = FALSE]], << >>)

cancel_sale(d, sender, amount, token_id) ==
    IF amount # 0 THEN Fail(d, "CANCEL: No tez expected")
    ELSE IF token_id \notin DOMAIN d.tokens
         THEN Fail(d, "CANCEL: Token not found")
    ELSE LET token == d.tokens[token_id] IN
         IF token.owner # sender THEN Fail(d, "CANCEL: Not owner")
         ELSE IF ~token.for_sale THEN Fail(d, "CANCEL: Not listed")
         ELSE Done([d EXCEPT !.tokens[token_id] =
                        [token EXCEPT !.for_sale = FALSE, !.price = 0]],
                   << >>)

buy_split_fee_on_rest(price, royalty_percent, platform_fee_percent) ==
    LET royalty == split_tokens(price, royalty_percent, 100)
        fee == split_tokens(price - royalty, platform_fee_percent, 100)
    IN [royalty |-> royalty, fee |-> fee,
        seller_amount |-> price - royalty - fee]

(* The shares of a sale as buy computes them *)
buy_split(price, royalty_percent, platform_fee_percent) ==
    LET royalty == split_tokens(price, royalty_percent, 100)
        fee == split_tokens(price, platform_fee_percent, 100)
    IN [royalty |-> royalty, fee |-> fee,
        seller_amount |-> price - royalty - fee]

distribute_buy_royalty_dropped(d, author_addr, seller_addr, royalty, fee, seller_amount) ==
    LET d1 == [d EXCEPT !.collected_fees = @ + fee] IN
    IF author_addr # seller_addr
    THEN add_pending(add_pending(d1, author_addr, royalty),
                     seller_addr, seller_amount)
    ELSE add_pending(d1, seller_addr, seller_amount)

(* The credits of a sale as buy makes them *)
distribute_buy(d, author_addr, seller_addr, royalty, fee, seller_amount) ==
    LET d1 == [d EXCEPT !.collected_fees = @ + fee] IN
    IF author_addr # seller_addr
    THEN add_pending(add_pending(d1, author_addr, royalty),
                     seller_addr, seller_amount)
    ELSE add_pending(d1, seller_addr, seller_amount + royalty)

buy_keeps_listing(d, sender, amount, token_id) ==
    IF d.paused THEN Fail(d, "BUY: Contract paused")
    ELSE IF token_id \notin DOMAIN d.tokens THEN Fail(d, "BUY: Token not found")
    ELSE LET token == d.tokens[token_id] IN
         IF ~token.for_sale THEN Fail(d, "BUY: Not for sale")
         ELSE IF ~(sender # token.owner)
              THEN Fail(d, "BUY: Cannot buy own token")
         ELSE IF amount # token.price THEN Fail(d, "BUY: Wrong amount")
         ELSE LET shares == buy_split(token.price, token.royalty_percent,
                                      d.platform_fee_percent)
                  d1 == [d EXCEPT !.tokens[token_id] =
                            [token EXCEPT !.owner = sender]]
              IN Done(distribute_buy(d1, token.author, token.owner,
                                     shares.royalty, shares.fee,
                                     shares.seller_amount), << >>)

buy_at_least_price(d, sender, amount, token_id) ==
    IF d.paused THEN Fail(d, "BUY: Contract paused")
    ELSE IF token_id \notin DOMAIN d.tokens THEN Fail(d, "BUY: Token not found")
    ELSE LET token == d.tokens[token_id] IN
         IF ~token.for_sale THEN Fail(d, "BUY: Not for sale")
         ELSE IF ~(sender # token.owner)
              THEN Fail(d, "BUY: Cannot buy own token")
         ELSE IF ~(amount >= token.price) THEN Fail(d, "BUY: Wrong amount")
         ELSE LET shares == buy_split(token.price, token.royalty_percent,
                                      d.platform_fee_percent)
                  d1 == [d EXCEPT !.tokens[token_id] =
                            [token EXCEPT !.owner = sender,
                                          !.for_sale = FALSE,
                                          !.price = 0]]
              IN Done(distribute_buy(d1, token.author, token.owner,
                                     shares.royalty, shares.fee,
                                     shares.seller_amount), << >>)

buy(d, sender, amount, token_id) ==
    IF d.paused THEN Fail(d, "BUY: Contract paused")
    ELSE IF token_id \notin DOMAIN d.tokens THEN Fail(d, "BUY: Token not found")
    ELSE LET token == d.tokens[token_id] IN
         IF ~token.for_sale THEN Fail(d, "BUY: Not for sale")
         ELSE IF ~(sender # token.owner)
              THEN Fail(d, "BUY: Cannot buy own token")
         ELSE IF amount # token.price THEN Fail(d, "BUY: Wrong amount")
         ELSE LET shares == buy_split(token.price, token.royalty_percent,
                                      d.platform_fee_percent)
                  royalty == shares.royalty
                  fee == shares.fee
                  seller_amount == shares.seller_amount
                  author_addr == token.author
                  seller_addr == token.owner
                  d1 == [d EXCEPT !.tokens[token_id] =
                            [token EXCEPT !.owner = sender,
                                          !.for_sale = FALSE,
                                          !.price = 0]]
              IN Done(distribute_buy(d1, author_addr, seller_addr, royalty,
                                     fee, seller_amount), << >>)

make_offer_replaces_book(d, sender, amount, time, token_id, duration_seconds) ==
    IF d.paused THEN Fail(d, "OFFER: Contract paused")
    ELSE IF token_id \notin DOMAIN d.tokens
         THEN Fail(d, "OFFER: Token not found")
    ELSE IF ~(duration_seconds > 0) THEN Fail(d, "OFFER: Invalid duration")
    ELSE IF ~(amount >= d.min_sale_price) THEN Fail(d, "OFFER: Amount too low")
    ELSE IF ~(sender # d.tokens[token_id].owner)
         THEN Fail(d, "OFFER: Cannot offer on own token")
    ELSE LET new_offer == [amount |-> amount,
                           expires_at |-> time + duration_seconds]
             d1 == IF token_id \in DOMAIN d.offers
                      /\ sender \in DOMAIN d.offers[token_id]
                   THEN add_pending(d, sender,
                                    d.offers[token_id][sender].amount)
                   ELSE d
         IN Done([d1 EXCEPT !.offers =
                     Put(@, token_id, Put(EmptyMap, sender, new_offer))],
                 << >>)

make_offer_no_refund(d, sender, amount, time, token_id, duration_seconds) ==
    IF d.paused THEN Fail(d, "OFFER: Contract paused")
    ELSE IF token_id \notin DOMAIN d.tokens
         THEN Fail(d, "OFFER: Token not found")
    ELSE IF ~(duration_seconds > 0) THEN Fail(d, "OFFER: Invalid duration")
    ELSE IF ~(amount >= d.min_sale_price) THEN Fail(d, "OFFER: Amount too low")
    ELSE IF ~(sender # d.tokens[token_id].owner)
         THEN Fail(d, "OFFER: Cannot offer on own token")
    ELSE LET new_offer == [amount |-> amount,
                           expires_at |-> time + duration_seconds]
         IN IF token_id \in DOMAIN d.offers
            THEN Done([d EXCEPT !.offers[token_id] =
                          Put(@, sender, new_offer)], << >>)
            ELSE Done([d EXCEPT !.offers =
                          Put(@, token_id, Put(EmptyMap, sender, new_offer))],
                      << >>)

make_offer(d, sender, amount, time, token_id, duration_seconds) ==
    IF d.paused THEN Fail(d, "OFFER: Contract paused")
    ELSE IF token_id \notin DOMAIN d.tokens
         THEN Fail(d, "OFFER: Token not found")
    ELSE IF ~(duration_seconds > 0) THEN Fail(d, "OFFER: Invalid duration")
    ELSE IF ~(amount >= d.min_sale_price) THEN Fail(d, "OFFER: Amount too low")
    ELSE LET token == d.tokens[token_id] IN
         IF ~(sender # token.owner)
         THEN Fail(d, "OFFER: Cannot offer on own token")
         ELSE LET new_offer == [amount |-> amount,
                                expires_at |-> time + duration_seconds]
              IN IF token_id \in DOMAIN d.offers
                 THEN LET token_offers == d.offers[token_id]
                          d1 == IF sender \in DOMAIN token_offers
                                THEN add_pending(d, sender,
                                                 token_offers[sender].amount)
                                ELSE d
                      IN Done([d1 EXCEPT !.offers[token_id] =
                                  Put(token_offers, sender, new_offer)], << >>)
                 ELSE Done([d EXCEPT !.offers =
                               Put(@, token_id,
                                   Put(EmptyMap, sender, new_offer))], << >>)

cancel_offer_paused_gated(d, sender, amount, token_id) ==
    IF d.paused THEN Fail(d, "CANCEL_OFFER: Contract paused")
    ELSE IF amount # 0 THEN Fail(d, "CANCEL_OFFER: No tez expected")
    ELSE IF token_id \notin DOMAIN d.offers
         THEN Fail(d, "CANCEL_OFFER: No offers on token")
    ELSE LET token_offers == d.offers[token_id] IN
         IF sender \notin DOMAIN token_offers
         THEN Fail(d, "CANCEL_OFFER: No offer from you")
         ELSE LET offer == token_offers[sender]
                  d1 == [d EXCEPT !.offers[token_id] = Del(token_offers, sender)]
              IN Done(add_pending(d1, sender, offer.amount), << >>)

cancel_offer(d, sender, amount, token_id) ==
    IF amount # 0 THEN Fail(d, "CANCEL_OFFER: No tez expected")
    ELSE IF token_id \notin DOMAIN d.offers
         THEN Fail(d, "CANCEL_OFFER: No offers on token")
    ELSE LET token_offers == d.offers[token_id] IN
         IF sender \notin DOMAIN token_offers
         THEN Fail(d, "CANCEL_OFFER: No offer from you")
         ELSE LET offer == token_offers[sender]
                  d1 == [d EXCEPT !.offers[token_id] = Del(token_offers, sender)]
              IN Done(add_pending(d1, sender, offer.amount), << >>)

(* The shares of a sale as accept_offer computes them *)
accept_split(price, royalty_percent, platform_fee_percent) ==
    LET royalty == split_tokens(price, royalty_percent, 100)
        fee == split_tokens(price, platform_fee_percent, 100)
    IN [royalty |-> royalty, fee |-> fee,
        seller_amount |-> price - royalty - fee]

distribute_accept_all_to_seller(d, author_addr, seller_addr, royalty, fee, seller_amount) ==
    add_pending([d EXCEPT !.collected_fees = @ + fee], seller_addr,
                seller_amount + royalty)

(* The credits of a sale as accept_offer makes them *)
distribute_accept(d, author_addr, seller_addr, royalty, fee, seller_amount) ==
    LET d1 == [d EXCEPT !.collected_fees = @ + fee] IN
    IF author_addr # seller_addr
    THEN add_pending(add_pending(d1, author_addr, royalty),
                     seller_addr, seller_amount)
    ELSE add_pending(d1, seller_addr, seller_amount + royalty)

remove_offer_and_others(token_offers, buyer) == EmptyMap

(* The removal of the accepted offer from the offers of the asset *)
remove_offer(token_offers, buyer) == Del(token_offers, buyer)

accept_offer_expiry_inclusive(d, sender, amount, time, token_id, buyer) ==
    IF d.paused THEN Fail(d, "ACCEPT: Contract paused")
    ELSE IF amount # 0 THEN Fail(d, "ACCEPT: No tez expected")
    ELSE IF token_id \notin DOMAIN d.tokens
         THEN Fail(d, "ACCEPT: Token not found")
    ELSE IF token_id \notin DOMAIN d.offers THEN Fail(d, "ACCEPT: No offers")
    ELSE LET token == d.tokens[token_id] IN
         IF token.owner # sender THEN Fail(d, "ACCEPT: Not owner")
         ELSE LET token_offers == d.offers[token_id] IN
              IF buyer \notin DOMAIN token_offers
              THEN Fail(d, "ACCEPT: Offer not found")
              ELSE LET offer == token_offers[buyer] IN
                   IF ~(time <= offer.expires_at)
                   THEN Fail(d, "ACCEPT: Offer expired")
                   ELSE LET shares == accept_split(offer.amount,
                                          token.royalty_percent,
                                          d.platform_fee_percent)
                            royalty == shares.royalty
                            fee == shares.fee
                            seller_amount == shares.seller_amount
                            author_addr == token.author
                            seller_addr == token.owner
                            d1 == [d EXCEPT
                                     !.tokens[token_id] =
                                        [token EXCEPT !.owner = buyer,
                                                      !.for_sale = FALSE,
                                                      !.price = 0],
                                     !.offers[token_id] =
                                        remove_offer(token_offers, buyer)]
                        IN Done(distribute_accept(d1, author_addr, seller_addr,
                                    royalty, fee, seller_amount), << >>)

accept_offer_rechecks_floor(d, sender, amount, time, token_id, buyer) ==
    IF d.paused THEN Fail(d, "ACCEPT: Contract paused")
    ELSE IF amount # 0 THEN Fail(d, "ACCEPT: No tez expected")
    ELSE IF token_id \notin DOMAIN d.tokens
         THEN Fail(d, "ACCEPT: Token not found")
    ELSE IF token_id \notin DOMAIN d.offers THEN Fail(d, "ACCEPT: No offers")
    ELSE LET token == d.tokens[token_id] IN
         IF token.owner # sender THEN Fail(d, "ACCEPT: Not owner")
         ELSE LET token_offers == d.offers[token_id] IN
              IF buyer \notin DOMAIN token_offers
              THEN Fail(d, "ACCEPT: Offer not found")
              ELSE LET offer == token_offers[buyer] IN
                   IF offer.amount < d.min_sale_price
                   THEN Fail(d, "ACCEPT: Offer below minimum")
                   ELSE IF ~(time < offer.expires_at)
                   THEN Fail(d, "ACCEPT: Offer expired")
                   ELSE LET shares == accept_split(offer.amount,
                                          token.royalty_percent,
                                          d.platform_fee_percent)
                            royalty == shares.royalty
                            fee == shares.fee
                            seller_amount == shares.seller_amount
                            author_addr == token.author
                            seller_addr == token.owner
                            d1 == [d EXCEPT
                                     !.tokens[token_id] =
                                        [token EXCEPT !.owner = buyer,
                                                      !.for_sale = FALSE,
                                                      !.price = 0],
                                     !.offers[token_id] =
                                        remove_offer(token_offers, buyer)]
                        IN Done(distribute_accept(d1, author_addr, seller_addr,
                                    royalty, fee, seller_amount), << >>)

accept_offer_keeps_price(d, sender, amount, time, token_id, buyer) ==
    IF d.paused THEN Fail(d, "ACCEPT: Contract paused")
    ELSE IF amount # 0 THEN Fail(d, "ACCEPT: No tez expected")
    ELSE IF token_id \notin DOMAIN d.tokens
         THEN Fail(d, "ACCEPT: Token not found")
    ELSE IF token_id \notin DOMAIN d.offers THEN Fail(d, "ACCEPT: No offers")
    ELSE LET token == d.tokens[token_id] IN
         IF token.owner # sender THEN Fail(d, "ACCEPT: Not owner")
         ELSE LET token_offers == d.offers[token_id] IN
              IF buyer \notin DOMAIN token_offers
              THEN Fail(d, "ACCEPT: Offer not found")
              ELSE LET offer == token_offers[buyer] IN
                   IF ~(time < offer.expires_at)
                   THEN Fail(d, "ACCEPT: Offer expired")
                   ELSE LET shares == accept_split(offer.amount,
                                          token.royalty_percent,
                                          d.platform_fee_percent)
                            royalty == shares.royalty
                            fee == shares.fee
                            seller_amount == shares.seller_amount
                            author_addr == token.author
                            seller_addr == token.owner
                            d1 == [d EXCEPT
                                     !.tokens[token_id] =
                                        [token EXCEPT !.owner = buyer,
                                                      !.for_sale = FALSE],
                                     !.offers[token_id] =
                                        remove_offer(token_offers, buyer)]
                        IN Done(distribute_accept(d1, author_addr, seller_addr,
                                    royalty, fee, seller_amount), << >>)

accept_offer(d, sender, amount, time, token_id, buyer) ==
    IF d.paused THEN Fail(d, "ACCEPT: Contract paused")
    ELSE IF amount # 0 THEN Fail(d, "ACCEPT: No tez expected")
    ELSE IF token_id \notin DOMAIN d.tokens
         THEN Fail(d, "ACCEPT: Token not found")
    ELSE IF token_id \notin DOMAIN d.offers THEN Fail(d, "ACCEPT: No offers")
    ELSE LET token == d.tokens[token_id] IN
         IF token.owner # sender THEN Fail(d, "ACCEPT: Not owner")
         ELSE LET token_offers == d.offers[token_id] IN
              IF buyer \notin DOMAIN token_offers
              THEN Fail(d, "ACCEPT: Offer not found")
              ELSE LET offer == token_offers[buyer] IN
                   IF ~(time < offer.expires_at)
                   THEN Fail(d, "ACCEPT: Offer expired")
                   ELSE LET shares == accept_split(offer.amount,
                                          token.royalty_percent,
                                          d.platform_fee_percent)
                            royalty == shares.royalty
                            fee == shares.fee
                            seller_amount == shares.seller_amount
                            author_addr == token.author
                            seller_addr == token.owner
                            d1 == [d EXCEPT
                                     !.tokens[token_id] =
                                        [token EXCEPT !.owner = buyer,
                                                      !.for_sale = FALSE,
                                                      !.price = 0],
                                     !.offers[token_id] =
                                        remove_offer(token_offers, buyer)]
                        IN Done(distribute_accept(d1, author_addr, seller_addr,
                                    royalty, fee, seller_amount), << >>)

transfer_moves_author(d, sender, amount, token_id, to_) ==
    IF d.paused THEN Fail(d, "TRANSFER: Contract paused")
    ELSE IF amount # 0 THEN Fail(d, "TRANSFER: No tez expected")
    ELSE IF token_id \notin DOMAIN d.tokens
         THEN Fail(d, "TRANSFER: Token not found")
    ELSE IF ~(to_ # BurnAddress)
         THEN Fail(d, "TRANSFER: Cannot send to burn address")
    ELSE IF ~(to_ # sender) THEN Fail(d, "TRANSFER: Cannot transfer to self")
    ELSE LET token == d.tokens[token_id] IN
         IF token.owner # sender THEN Fail(d, "TRANSFER: Not owner")
         ELSE IF token.for_sale THEN Fail(d, "TRANSFER: Token is listed")
         ELSE Done([d EXCEPT !.tokens[token_id] =
                        [token EXCEPT !.owner = to_, !.author = to_]], << >>)

transfer_allows_listed(d, sender, amount, token_id, to_) ==
    IF d.paused THEN Fail(d, "TRANSFER: Contract paused")
    ELSE IF amount # 0 THEN Fail(d, "TRANSFER: No tez expected")
    ELSE IF token_id \notin DOMAIN d.tokens
         THEN Fail(d, "TRANSFER: Token not found")
    ELSE IF ~(to_ # BurnAddress)
         THEN Fail(d, "TRANSFER: Cannot send to burn address")
    ELSE IF ~(to_ # sender) THEN Fail(d, "TRANSFER: Cannot transfer to self")
    ELSE LET token == d.tokens[token_id] IN
         IF token.owner # sender THEN Fail(d, "TRANSFER: Not owner")
         ELSE Done([d EXCEPT !.tokens[token_id] =
                        [token EXCEPT !.owner = to_]], << >>)

transfer_ignores_pause(d, sender, amount, token_id, to_) ==
    IF amount # 0 THEN Fail(d, "TRANSFER: No tez expected")
    ELSE IF token_id \notin DOMAIN d.tokens
         THEN Fail(d, "TRANSFER: Token not found")
    ELSE IF ~(to_ # BurnAddress)
         THEN Fail(d, "TRANSFER: Cannot send to burn address")
    ELSE IF ~(to_ # sender) THEN Fail(d, "TRANSFER: Cannot transfer to self")
    ELSE LET token == d.tokens[token_id] IN
         IF token.owner # sender THEN Fail(d, "TRANSFER: Not owner")
         ELSE IF token.for_sale THEN Fail(d, "TRANSFER: Token is listed")
         ELSE Done([d EXCEPT !.tokens[token_id] =
                        [token EXCEPT !.owner = to_]], << >>)

transfer(d, sender, amount, token_id, to_) ==
    IF d.paused THEN Fail(d, "TRANSFER: Contract paused")
    ELSE IF amount # 0 THEN Fail(d, "TRANSFER: No tez expected")
    ELSE IF token_id \notin DOMAIN d.tokens
         THEN Fail(d, "TRANSFER: Token not found")
    ELSE IF ~(to_ # BurnAddress)
         THEN Fail(d, "TRANSFER: Cannot send to burn address")
    ELSE IF ~(to_ # sender) THEN Fail(d, "TRANSFER: Cannot transfer to self")
    ELSE LET token == d.tokens[token_id] IN
         IF token.owner # sender THEN Fail(d, "TRANSFER: Not owner")
         ELSE IF token.for_sale THEN Fail(d, "TRANSFER: Token is listed")
         ELSE Done([d EXCEPT !.tokens[token_id] =
                        [token EXCEPT !.owner = to_]], << >>)

refund_offers_skipped(d, token_offers, keys) == d

refund_offers_first_only(d, token_offers, keys) ==
    IF keys = {} THEN d
    ELSE LET buyer_addr == CHOOSE k \in keys : TRUE
         IN add_pending(d, buyer_addr, token_offers[buyer_addr].amount)

(* The loop of burn over token_offers.keys() *)
RECURSIVE refund_offers(_, _, _)
refund_offers(d, token_offers, keys) ==
    IF keys = {} THEN d
    ELSE LET buyer_addr == CHOOSE k \in keys : TRUE
         IN refund_offers(add_pending(d, buyer_addr,
                                      token_offers[buyer_addr].amount),
                          token_offers, keys \ {buyer_addr})

burn_paused_gated(d, sender, amount, token_id) ==
    IF d.paused THEN Fail(d, "BURN: Contract paused")
    ELSE IF amount # 0 THEN Fail(d, "BURN: No tez expected")
    ELSE IF token_id \notin DOMAIN d.tokens THEN Fail(d, "BURN: Token not found")
    ELSE LET token == d.tokens[token_id] IN
         IF token.owner # sender THEN Fail(d, "BURN: Not owner")
         ELSE IF token.for_sale THEN Fail(d, "BURN: Token is listed")
         ELSE LET d1 == [d EXCEPT !.tokens = Del(@, token_id)] IN
              IF token_id \in DOMAIN d1.offers
              THEN LET token_offers == d1.offers[token_id]
                       d2 == refund_offers(d1, token_offers,
                                           DOMAIN token_offers)
                   IN Done([d2 EXCEPT !.offers = Del(@, token_id)], << >>)
              ELSE Done(d1, << >>)

burn_by_anyone(d, sender, amount, token_id) ==
    IF amount # 0 THEN Fail(d, "BURN: No tez expected")
    ELSE IF token_id \notin DOMAIN d.tokens THEN Fail(d, "BURN: Token not found")
    ELSE LET token == d.tokens[token_id] IN
         IF token.for_sale THEN Fail(d, "BURN: Token is listed")
         ELSE LET d1 == [d EXCEPT !.tokens = Del(@, token_id)] IN
              IF token_id \in DOMAIN d1.offers
              THEN LET token_offers == d1.offers[token_id]
                       d2 == refund_offers(d1, token_offers,
                                           DOMAIN token_offers)
                   IN Done([d2 EXCEPT !.offers = Del(@, token_id)], << >>)
              ELSE Done(d1, << >>)

burn_keeps_offers(d, sender, amount, token_id) ==
    IF amount # 0 THEN Fail(d, "BURN: No tez expected")
    ELSE IF token_id \notin DOMAIN d.tokens THEN Fail(d, "BURN: Token not found")
    ELSE LET token == d.tokens[token_id] IN
         IF token.owner # sender THEN Fail(d, "BURN: Not owner")
         ELSE IF token.for_sale THEN Fail(d, "BURN: Token is listed")
         ELSE LET d1 == [d EXCEPT !.tokens = Del(@, token_id)] IN
              IF token_id \in DOMAIN d1.offers
              THEN LET token_offers == d1.offers[token_id]
                       d2 == refund_offers(d1, token_offers,
                                           DOMAIN token_offers)
                   IN Done(d2, << >>)
              ELSE Done(d1, << >>)

burn(d, sender, amount, token_id) ==
    IF amount # 0 THEN Fail(d, "BURN: No tez expected")
    ELSE IF token_id \notin DOMAIN d.tokens THEN Fail(d, "BURN: Token not found")
    ELSE LET token == d.tokens[token_id] IN
         IF token.owner # sender THEN Fail(d, "BURN: Not owner")
         ELSE IF token.for_sale THEN Fail(d, "BURN: Token is listed")
         ELSE LET d1 == [d EXCEPT !.tokens = Del(@, token_id)] IN
              IF token_id \in DOMAIN d1.offers
              THEN LET token_offers == d1.offers[token_id]
                       d2 == refund_offers(d1, token_offers,
                                           DOMAIN token_offers)
                   IN Done([d2 EXCEPT !.offers = Del(@, token_id)], << >>)
              ELSE Done(d1, << >>)

withdraw_keep_entry(d, sender, amount) ==
    IF amount # 0 THEN Fail(d, "WITHDRAW: No tez expected")
    ELSE IF sender \notin DOMAIN d.pending_payments
         THEN Fail(d, "WITHDRAW: Nothing pending")
    ELSE LET pending == d.pending_payments[sender] IN
         IF ~(pending > 0) THEN Fail(d, "WITHDRAW: Zero amount")
         ELSE Done(d, << [to |-> sender, amount |-> pending,
                          kind |-> "withdraw"] >>)

withdraw_zeroes_entry(d, sender, amount) ==
    IF amount # 0 THEN Fail(d, "WITHDRAW: No tez expected")
    ELSE IF sender \notin DOMAIN d.pending_payments
         THEN Fail(d, "WITHDRAW: Nothing pending")
    ELSE LET pending == d.pending_payments[sender] IN
         IF ~(pending > 0) THEN Fail(d, "WITHDRAW: Zero amount")
         ELSE Done([d EXCEPT !.pending_payments[sender] = 0],
                   << [to |-> sender, amount |-> pending, kind |-> "withdraw"] >>)

withdraw(d, sender, amount) ==
    IF amount # 0 THEN Fail(d, "WITHDRAW: No tez expected")
    ELSE IF sender \notin DOMAIN d.pending_payments
         THEN Fail(d, "WITHDRAW: Nothing pending")
    ELSE LET pending == d.pending_payments[sender] IN
         IF ~(pending > 0) THEN Fail(d, "WITHDRAW: Zero amount")
         ELSE Done([d EXCEPT !.pending_payments = Del(@, sender)],
                   << [to |-> sender, amount |-> pending, kind |-> "withdraw"] >>)

withdraw_fees_keeps_accumulator(d, sender, amount) ==
    IF amount # 0 THEN Fail(d, "FEES: No tez expected")
    ELSE IF sender # d.admin THEN Fail(d, "FEES: Not admin")
    ELSE IF ~(d.collected_fees > 0) THEN Fail(d, "FEES: Nothing to withdraw")
    ELSE Done(d, << [to |-> d.admin, amount |-> d.collected_fees,
                     kind |-> "fees"] >>)

withdraw_fees(d, sender, amount) ==
    IF amount # 0 THEN Fail(d, "FEES: No tez expected")
    ELSE IF sender # d.admin THEN Fail(d, "FEES: Not admin")
    ELSE IF ~(d.collected_fees > 0) THEN Fail(d, "FEES: Nothing to withdraw")
    ELSE Done([d EXCEPT !.collected_fees = 0],
              << [to |-> d.admin, amount |-> d.collected_fees,
                  kind |-> "fees"] >>)

set_pause_by_anyone(d, sender, amount, paused) ==
    IF amount # 0 THEN Fail(d, "PAUSE: No tez expected")
    ELSE Done([d EXCEPT !.paused = paused], << >>)

set_pause(d, sender, amount, paused) ==
    IF amount # 0 THEN Fail(d, "PAUSE: No tez expected")
    ELSE IF sender # d.admin THEN Fail(d, "PAUSE: Not admin")
    ELSE Done([d EXCEPT !.paused = paused], << >>)

propose_admin_allows_self(d, sender, amount, new_admin) ==
    IF amount # 0 THEN Fail(d, "ADMIN: No tez expected")
    ELSE IF sender # d.admin THEN Fail(d, "ADMIN: Not admin")
    ELSE Done([d EXCEPT !.pending_admin = new_admin], << >>)

propose_admin(d, sender, amount, new_admin) ==
    IF amount # 0 THEN Fail(d, "ADMIN: No tez expected")
    ELSE IF sender # d.admin THEN Fail(d, "ADMIN: Not admin")
    ELSE IF ~(new_admin # d.admin) THEN Fail(d, "ADMIN: Same admin")
    ELSE Done([d EXCEPT !.pending_admin = new_admin], << >>)

accept_admin_by_anyone(d, sender, amount) ==
    IF amount # 0 THEN Fail(d, "ADMIN: No tez expected")
    ELSE IF d.pending_admin = NoAddr THEN Fail(d, "ADMIN: No pending")
    ELSE Done([d EXCEPT !.admin = d.pending_admin, !.pending_admin = NoAddr],
              << >>)

accept_admin_keeps_pending(d, sender, amount) ==
    IF amount # 0 THEN Fail(d, "ADMIN: No tez expected")
    ELSE IF d.pending_admin = NoAddr THEN Fail(d, "ADMIN: No pending")
    ELSE LET pending == d.pending_admin IN
         IF sender # pending THEN Fail(d, "ADMIN: Not proposed admin")
         ELSE Done([d EXCEPT !.admin = pending], << >>)

accept_admin(d, sender, amount) ==
    IF amount # 0 THEN Fail(d, "ADMIN: No tez expected")
    ELSE IF d.pending_admin = NoAddr THEN Fail(d, "ADMIN: No pending")
    ELSE LET pending == d.pending_admin IN
         IF sender # pending THEN Fail(d, "ADMIN: Not proposed admin")
         ELSE Done([d EXCEPT !.admin = pending, !.pending_admin = NoAddr],
                   << >>)

cancel_admin_change(d, sender, amount) ==
    IF amount # 0 THEN Fail(d, "ADMIN: No tez expected")
    ELSE IF sender # d.admin THEN Fail(d, "ADMIN: Not admin")
    ELSE Done([d EXCEPT !.pending_admin = NoAddr], << >>)

update_platform_fee_unchecked(d, sender, amount, new_fee) ==
    IF amount # 0 THEN Fail(d, "FEE: No tez expected")
    ELSE IF sender # d.admin THEN Fail(d, "FEE: Not admin")
    ELSE Done([d EXCEPT !.platform_fee_percent = new_fee], << >>)

update_platform_fee(d, sender, amount, new_fee) ==
    IF amount # 0 THEN Fail(d, "FEE: No tez expected")
    ELSE IF sender # d.admin THEN Fail(d, "FEE: Not admin")
    ELSE IF ~(new_fee <= 20) THEN Fail(d, "FEE: Too high")
    ELSE Done([d EXCEPT !.platform_fee_percent = new_fee], << >>)

update_mint_price(d, sender, amount, new_price) ==
    IF amount # 0 THEN Fail(d, "PRICE: No tez expected")
    ELSE IF sender # d.admin THEN Fail(d, "PRICE: Not admin")
    ELSE Done([d EXCEPT !.mint_price = new_price], << >>)

update_min_sale_price_sets_mint_price(d, sender, amount, new_price) ==
    IF amount # 0 THEN Fail(d, "PRICE: No tez expected")
    ELSE IF sender # d.admin THEN Fail(d, "PRICE: Not admin")
    ELSE Done([d EXCEPT !.mint_price = new_price], << >>)

update_min_sale_price(d, sender, amount, new_price) ==
    IF amount # 0 THEN Fail(d, "PRICE: No tez expected")
    ELSE IF sender # d.admin THEN Fail(d, "PRICE: Not admin")
    ELSE Done([d EXCEPT !.min_sale_price = new_price], << >>)

------------------------------------------------------------------------------
(* On-chain views *)

get_pending(d, addr) ==
    IF addr \in DOMAIN d.pending_payments THEN d.pending_payments[addr] ELSE 0

(* A view returns a value or fails *)
Returned(v) == [err |-> "ok", value |-> v]

ViewFailed(msg) == [err |-> msg, value |-> 0]

get_token(d, token_id) ==
    IF token_id \notin DOMAIN d.tokens THEN ViewFailed("VIEW: Token not found")
    ELSE Returned(d.tokens[token_id])

get_owner(d, token_id) ==
    IF token_id \notin DOMAIN d.tokens THEN ViewFailed("VIEW: Token not found")
    ELSE Returned(d.tokens[token_id].owner)

is_for_sale(d, token_id) ==
    IF token_id \in DOMAIN d.tokens THEN d.tokens[token_id].for_sale ELSE FALSE

get_price(d, token_id) ==
    IF token_id \in DOMAIN d.tokens
    THEN LET token == d.tokens[token_id] IN
         IF token.for_sale THEN token.price ELSE 0
    ELSE 0

get_total_supply_counts_live(d) == Cardinality(DOMAIN d.tokens)

get_total_supply(d) == d.next_id

------------------------------------------------------------------------------
(* Construction *)

Constructor(admin, platform_fee_percent, mint_price, min_sale_price, max_metadata_length, max_supply) ==
    IF ~(platform_fee_percent <= 20) THEN Fail(EmptyMap, "INIT: Fee too high")
    ELSE IF ~(max_metadata_length >= 10)
         THEN Fail(EmptyMap, "INIT: Metadata length too small")
    ELSE Done([tokens |-> EmptyMap,
               next_id |-> 0,
               offers |-> EmptyMap,
               pending_payments |-> EmptyMap,
               collected_fees |-> 0,
               admin |-> admin,
               pending_admin |-> NoAddr,
               platform_fee_percent |-> platform_fee_percent,
               mint_price |-> mint_price,
               min_sale_price |-> min_sale_price,
               max_metadata_length |-> max_metadata_length,
               max_supply |-> max_supply,
               paused |-> FALSE], << >>)

(* The contract exists once its constructor has accepted its arguments *)
Originate(fees, lengths, max_supply) ==
    \E f \in fees, l \in lengths :
       LET res == Constructor(InitAdmin, f, InitMintPrice, InitMinSalePrice,
                              l, max_supply)
       IN res.err = "ok" /\ data = res.data

InitWith(fees, max_supply) ==
    /\ Originate(fees, {InitMaxMetadataLength, 9}, max_supply)
    /\ now = 0
    /\ ops = << >>
    /\ attached = 0
    /\ received = [a \in Addrs |-> 0]
    /\ fees_paid = 0
    /\ credited = [a \in Addrs |-> 0]

Init == InitWith({InitFee, 21}, SingleSupply)

InitOffers == InitWith({InitFee, 21}, EdgeSupply)

InitSplit == InitWith(0 .. 21, SingleSupply)

InitSupply ==
    \E n \in {NoSupplyCap, SingleSupply, EdgeSupply, TestSupply} :
       InitWith({InitFee, 21}, n)


------------------------------------------------------------------------------
(* Inputs of the calls *)

Max(a, b) == IF a >= b THEN a ELSE b

(* The host runs one call at a time (spec section 5).  While a transfer    *)
(* emitted by sp.send is being executed, the only code that runs is the    *)
(* recipient's, so the only calls that can arrive are calls by it.         *)
MayCall(sender) == IF ops = << >> THEN TRUE ELSE sender = ops[Len(ops)].to

(* The host applies the outcome of an accepted call: its storage and the   *)
(* transfers it emitted.  A rejected call is aborted: nothing of it is     *)
(* applied and its amount goes back to the sender, so it is no step.       *)
Apply(res, sender, amount) ==
    /\ MayCall(sender)
    /\ res.err = "ok"
    /\ Len(ops) + Len(res.ops) <= MaxInFlight
    /\ data' = res.data
    /\ ops' = ops \o res.ops
    /\ attached' = attached + amount
    /\ credited' = [a \in Addrs |->
                      credited[a] + Max(0, get_pending(res.data, a)
                                           - get_pending(data, a))]
    /\ UNCHANGED <<now, received, fees_paid>>

Mint(sender, amount, metadata, royalty_percent) ==
    Apply(mint(data, sender, amount, now, metadata, royalty_percent),
          sender, amount)

ListForSale(sender, amount, token_id, price) ==
    Apply(list_for_sale(data, sender, amount, token_id, price), sender, amount)

UpdatePrice(sender, amount, token_id, new_price) ==
    Apply(update_price(data, sender, amount, token_id, new_price),
          sender, amount)

CancelSale(sender, amount, token_id) ==
    Apply(cancel_sale(data, sender, amount, token_id), sender, amount)

Buy(sender, amount, token_id) ==
    Apply(buy(data, sender, amount, token_id), sender, amount)

MakeOffer(sender, amount, token_id, duration_seconds) ==
    Apply(make_offer(data, sender, amount, now, token_id, duration_seconds),
          sender, amount)

CancelOffer(sender, amount, token_id) ==
    Apply(cancel_offer(data, sender, amount, token_id), sender, amount)

AcceptOffer(sender, amount, token_id, buyer) ==
    Apply(accept_offer(data, sender, amount, now, token_id, buyer),
          sender, amount)

Transfer(sender, amount, token_id, to_) ==
    Apply(transfer(data, sender, amount, token_id, to_), sender, amount)

Burn(sender, amount, token_id) ==
    Apply(burn(data, sender, amount, token_id), sender, amount)

Withdraw(sender, amount) ==
    Apply(withdraw(data, sender, amount), sender, amount)

WithdrawFees(sender, amount) ==
    Apply(withdraw_fees(data, sender, amount), sender, amount)

SetPause(sender, amount, paused) ==
    Apply(set_pause(data, sender, amount, paused), sender, amount)

ProposeAdmin(sender, amount, new_admin) ==
    Apply(propose_admin(data, sender, amount, new_admin), sender, amount)

AcceptAdmin(sender, amount) ==
    Apply(accept_admin(data, sender, amount), sender, amount)

CancelAdminChange(sender, amount) ==
    Apply(cancel_admin_change(data, sender, amount), sender, amount)

UpdatePlatformFee(sender, amount, new_fee) ==
    Apply(update_platform_fee(data, sender, amount, new_fee), sender, amount)

UpdateMintPrice(sender, amount, new_price) ==
    Apply(update_mint_price(data, sender, amount, new_price), sender, amount)

UpdateMinSalePrice(sender, amount, new_price) ==
    Apply(update_min_sale_price(data, sender, amount, new_price),
          sender, amount)

(* The host executes the transfer emitted last by sp.send *)
Deliver ==
    /\ ops # << >>
    /\ LET op == ops[Len(ops)] IN
          /\ received' = IF op.kind = "withdraw"
                         THEN [received EXCEPT ![op.to] = @ + op.amount]
                         ELSE received
          /\ fees_paid' = IF op.kind = "fees"
                          THEN fees_paid + op.amount
                          ELSE fees_paid
    /\ ops' = SubSeq(ops, 1, Len(ops) - 1)
    /\ UNCHANGED <<data, now, attached, credited>>

(* Time passes between two top-level calls *)
Tick ==
    /\ ops = << >>
    /\ now < MaxTime
    /\ now' = now + 1
    /\ UNCHANGED <<data, ops, attached, received, fees_paid, credited>>

(* The calls of one step of the host.  I gives the inputs the callers    *)
(* draw from: senders, amounts, metadata, royalties, prices, durations,  *)
(* the values of the admin setters, and the caps on the ids issued and   *)
(* on the value attached.                                                *)
Pay(I) == {a \in I.amounts : attached + a <= I.max_attached}

Free(I) == {a \in I.no_amount : attached + a <= I.max_attached}

Ids(I) == 0 .. (I.max_tokens - 1)

MarketStep(I) ==
    \/ \E s \in I.minters, a \in Pay(I), m \in I.metadatas,
          r \in I.royalties :
          data.next_id < I.max_tokens /\ Mint(s, a, m, r)
    \/ \E s \in I.senders, a \in Free(I), t \in Ids(I), p \in I.prices :
          ListForSale(s, a, t, p)
    \/ \E s \in I.senders, a \in Free(I), t \in Ids(I), p \in I.prices :
          UpdatePrice(s, a, t, p)
    \/ \E s \in I.senders, a \in Free(I), t \in Ids(I) : CancelSale(s, a, t)
    \/ \E s \in I.senders, a \in Pay(I), t \in Ids(I) : Buy(s, a, t)
    \/ \E s \in I.senders, a \in Pay(I), t \in Ids(I), n \in I.durations :
          MakeOffer(s, a, t, n)
    \/ \E s \in I.senders, a \in Free(I), t \in Ids(I) : CancelOffer(s, a, t)
    \/ \E s \in I.senders, a \in Free(I), t \in Ids(I), b \in I.senders :
          AcceptOffer(s, a, t, b)
    \/ \E s \in I.senders, a \in Free(I), t \in Ids(I),
          b \in I.senders \cup {BurnAddress} : Transfer(s, a, t, b)
    \/ \E s \in I.senders, a \in Free(I), t \in Ids(I) : Burn(s, a, t)
    \/ \E s \in I.payees, a \in Free(I) : Withdraw(s, a)
    \/ \E s \in I.payees, a \in Free(I) : WithdrawFees(s, a)
    \/ Deliver

AdminStep(I) ==
    \/ \E s \in I.payees, a \in Free(I), b \in BOOLEAN : SetPause(s, a, b)
    \/ \E s \in I.payees, a \in Free(I), b \in I.admins :
          ProposeAdmin(s, a, b)
    \/ \E s \in I.payees, a \in Free(I) : AcceptAdmin(s, a)
    \/ \E s \in I.payees, a \in Free(I) : CancelAdminChange(s, a)
    \/ \E s \in I.payees, a \in Free(I), f \in I.fees :
          UpdatePlatformFee(s, a, f)
    \/ \E s \in I.payees, a \in Free(I), p \in I.mint_prices :
          UpdateMintPrice(s, a, p)
    \/ \E s \in I.payees, a \in Free(I), p \in I.min_sale_prices :
          UpdateMinSalePrice(s, a, p)

(* Every entry point, one asset, a market of two *)
AllInputs ==
    [senders |-> {"alice", "bob"}, payees |-> Addrs, minters |-> {"alice"},
     amounts |-> {0, 1, 50}, no_amount |-> {0},
     metadatas |-> {"", "ipfs://Qm1", "ipfs://Qm1x"}, royalties |-> {20, 51},
     prices |-> {0, 50}, durations |-> {0, 1},
     admins |-> {"admin", "alice"}, fees |-> {20, 21},
     mint_prices |-> {0}, min_sale_prices |-> {100},
     max_tokens |-> SingleSupply, max_attached |-> MaxAttachedAll]

Next == MarketStep(AllInputs) \/ AdminStep(AllInputs)

Spec == Init /\ [][Next]_vars

(* The market entry points under the configuration of construction *)
MarketInputs ==
    [senders |-> Addrs, payees |-> Addrs, minters |-> {"alice"},
     amounts |-> {0, 1, 50, 100}, no_amount |-> {0},
     metadatas |-> {"", "ipfs://Qm1", "ipfs://Qm1x"},
     royalties |-> {0, 20, 51},
     prices |-> {0, 50, 100}, durations |-> {0, 1},
     max_tokens |-> SingleSupply, max_attached |-> MaxAttached]

NextMarket == MarketStep(MarketInputs) \/ Tick

SpecMarket == Init /\ [][NextMarket]_vars

(* The offer book of two assets *)
OfferInputs ==
    [senders |-> Addrs, minters |-> {"alice"},
     amounts |-> {0, 1, 50, 100}, no_amount |-> {0},
     metadatas |-> {"ipfs://Qm1"}, royalties |-> {20},
     prices |-> {50}, durations |-> {1},
     max_tokens |-> MaxTokens, max_attached |-> MaxAttachedOffers]

OfferStep(I) ==
    \/ \E s \in I.minters, a \in Pay(I), m \in I.metadatas,
          r \in I.royalties :
          data.next_id < I.max_tokens /\ Mint(s, a, m, r)
    \/ \E s \in I.senders, a \in Free(I), t \in Ids(I), p \in I.prices :
          ListForSale(s, a, t, p)
    \/ \E s \in I.senders, a \in Pay(I), t \in Ids(I), n \in I.durations :
          MakeOffer(s, a, t, n)
    \/ \E s \in I.senders, a \in Free(I), t \in Ids(I) : CancelOffer(s, a, t)
    \/ \E s \in I.senders, a \in Free(I), t \in Ids(I), b \in I.senders :
          AcceptOffer(s, a, t, b)
    \/ \E s \in I.senders, a \in Free(I), t \in Ids(I) : Burn(s, a, t)

NextOffers == OfferStep(OfferInputs) \/ Tick

SpecOffers == InitOffers /\ [][NextOffers]_vars

(* The offer book of two assets under the pause flag *)
NextPausedOffers ==
    \/ OfferStep(OfferInputs)
    \/ Tick
    \/ \E s \in Addrs, b \in BOOLEAN : SetPause(s, 0, b)

SpecPausedOffers == InitOffers /\ [][NextPausedOffers]_vars

(* One sale of one asset, by purchase or by offer, for every royalty and *)
(* every platform fee                                                    *)
SplitPrices == {50, 99, 100}

NextSplit ==
    \/ \E r \in 0 .. 51 : Mint("alice", data.mint_price, "ipfs://Qm1", r)
    \/ \E p \in SplitPrices : ListForSale("alice", 0, 0, p)
    \/ \E a \in SplitPrices : attached = 1 /\ Buy("bob", a, 0)
    \/ \E a \in SplitPrices : attached = 1 /\ MakeOffer("bob", a, 0, 1)
    \/ AcceptOffer("alice", 0, 0, "bob")

SpecSplit == InitSplit /\ [][NextSplit]_vars

(* The administration, with the mint that fills the fee accumulator and  *)
(* the payout that empties it                                            *)
AdminInputs ==
    [payees |-> Addrs, minters |-> {"alice"},
     amounts |-> {0, 1}, no_amount |-> {0},
     metadatas |-> {"ipfs://Qm1"}, royalties |-> {20},
     admins |-> Addrs, fees |-> {20, 21},
     mint_prices |-> {0}, min_sale_prices |-> {100},
     max_tokens |-> SingleSupply, max_attached |-> MaxAttachedAll]

FeeStep(I) ==
    \/ \E s \in I.minters, a \in Pay(I), m \in I.metadatas,
          r \in I.royalties :
          data.next_id < I.max_tokens /\ Mint(s, a, m, r)
    \/ \E s \in I.payees, a \in Free(I) : WithdrawFees(s, a)
    \/ Deliver

NextAdmin == AdminStep(AdminInputs) \/ FeeStep(AdminInputs)

SpecAdmin == Init /\ [][NextAdmin]_vars

(* Mints by every address and burns, with and without supply cap *)
NextSupply ==
    \/ \E s \in Addrs :
          /\ data.max_supply = NoSupplyCap => data.next_id < MaxMinted
          /\ Mint(s, data.mint_price, "ipfs://Qm1", 20)
    \/ \E s \in Addrs, t \in 0 .. MaxMinted : Burn(s, 0, t)

SpecSupply == InitSupply /\ [][NextSupply]_vars

------------------------------------------------------------------------------
(* Sums used by the properties *)

RECURSIVE SetSum(_, _)
SetSum(f, S) ==
    IF S = {} THEN 0
    ELSE LET x == CHOOSE y \in S : TRUE IN f[x] + SetSum(f, S \ {x})

SumPending(d) == SetSum(d.pending_payments, DOMAIN d.pending_payments)

SumOffers(d) ==
    SetSum([t \in DOMAIN d.offers |->
               SetSum([b \in DOMAIN d.offers[t] |-> d.offers[t][b].amount],
                      DOMAIN d.offers[t])],
           DOMAIN d.offers)

InFlight(kind, to) ==
    SetSum([i \in DOMAIN ops |->
               IF ops[i].kind = kind /\ ops[i].to = to THEN ops[i].amount
               ELSE 0],
           DOMAIN ops)

(* Everything sp.send has paid out, executed or not *)
PaidOut ==
    SetSum([a \in Addrs |->
               received[a] + InFlight("withdraw", a) + InFlight("fees", a)],
           Addrs)
    + fees_paid

------------------------------------------------------------------------------
(* C1: in every reachable state the value attached to all accepted calls  *)
(* equals the sum of the pending balances, plus the fee accumulator, plus *)
(* the amounts of the live offers, plus everything paid out by withdraw   *)
(* and withdraw_fees.                                                     *)
C1_ValueConserved ==
    attached = SumPending(data) + data.collected_fees + SumOffers(data)
               + PaidOut

C1_Witness ==
    /\ attached = MaxAttachedAll
    /\ SumPending(data) > 0
    /\ data.collected_fees > 0
    /\ fees_paid > 0
    /\ \E a \in Addrs : received[a] > 0

------------------------------------------------------------------------------
(* C2: the step in which withdraw emits its transfer leaves the caller    *)
(* without ledger entry, so a withdraw by the same caller run before the  *)
(* transfer is executed fails with 'WITHDRAW: Nothing pending'; and what  *)
(* withdraw has sent to an address never exceeds what was credited to its *)
(* pending balance.                                                       *)
WithdrawEmits(a) ==
    /\ Len(ops') = Len(ops) + 1
    /\ ops'[Len(ops')].kind = "withdraw"
    /\ ops'[Len(ops')].to = a

C2_NoReentrantWithdraw ==
    \A a \in Addrs :
       WithdrawEmits(a) =>
          /\ a \notin DOMAIN data'.pending_payments
          /\ withdraw(data', a, 0).err = "WITHDRAW: Nothing pending"
          /\ withdraw(data', a, 0).ops = << >>

C2_NeverOverpaid ==
    \A a \in Addrs : received[a] + InFlight("withdraw", a) <= credited[a]

C2_WithdrawReentrancy ==
    [][C2_NoReentrantWithdraw /\ C2_NeverOverpaid']_vars

C2_Witness ==
    \E a \in Addrs :
       /\ ops # << >>
       /\ ops[Len(ops)].kind = "withdraw"
       /\ ops[Len(ops)].to = a
       /\ credited[a] > 0
       /\ withdraw(data, a, 0).err = "WITHDRAW: Nothing pending"

------------------------------------------------------------------------------
(* C3: every rejected call, of any entry point, leaves the storage as it  *)
(* was and emits no transfer.                                             *)
Rejected(res) == res.err # "ok" => (res.data = data /\ res.ops = << >>)

C3_RejectedCallsChangeNothing ==
    \A s \in Addrs, a \in {0, 1, 50}, t \in {0, 1} :
       /\ \A m \in {"", "ipfs://Qm1", "ipfs://Qm1x"}, r \in {20, 51} :
             Rejected(mint(data, s, a, now, m, r))
       /\ \A p \in {0, 50, 100} :
             /\ Rejected(list_for_sale(data, s, a, t, p))
             /\ Rejected(update_price(data, s, a, t, p))
             /\ Rejected(update_mint_price(data, s, a, p))
             /\ Rejected(update_min_sale_price(data, s, a, p))
       /\ Rejected(cancel_sale(data, s, a, t))
       /\ Rejected(buy(data, s, a, t))
       /\ \A n \in {0, 1} : Rejected(make_offer(data, s, a, now, t, n))
       /\ Rejected(cancel_offer(data, s, a, t))
       /\ \A b \in Addrs :
             /\ Rejected(accept_offer(data, s, a, now, t, b))
             /\ Rejected(propose_admin(data, s, a, b))
       /\ \A b \in Addrs \cup {BurnAddress} :
             Rejected(transfer(data, s, a, t, b))
       /\ Rejected(burn(data, s, a, t))
       /\ Rejected(withdraw(data, s, a))
       /\ Rejected(withdraw_fees(data, s, a))
       /\ \A b \in BOOLEAN : Rejected(set_pause(data, s, a, b))
       /\ Rejected(accept_admin(data, s, a))
       /\ Rejected(cancel_admin_change(data, s, a))
       /\ \A f \in {20, 21} : Rejected(update_platform_fee(data, s, a, f))

C3_Witness ==
    /\ data.paused
    /\ data.next_id = data.max_supply
    /\ 0 \in DOMAIN data.tokens
    /\ 0 \in DOMAIN data.offers
    /\ "bob" \in DOMAIN data.offers[0]
    /\ accept_offer(data, data.tokens[0].owner, 0, now, 0, "bob").err
          = "ACCEPT: Contract paused"
    /\ mint(data, "alice", data.mint_price, now, "ipfs://Qm1", 20).err
          = "MINT: Contract paused"
    /\ accept_offer(data, "bob", 0, now, 0, "bob").data = data

------------------------------------------------------------------------------
(* C4 as the specification states it: for all assets, at all times,       *)
(* listed implies price >= min_sale_price.                                *)
C4_ListedAtOrAboveFloor ==
    \A t \in DOMAIN data.tokens :
       data.tokens[t].for_sale => data.tokens[t].price >= data.min_sale_price

(* C4 amended: every step that lists an asset or changes the price of a   *)
(* listed asset sets a price >= the min_sale_price in force at that step, *)
(* and every step that does not change min_sale_price keeps listed        *)
(* prices at or above it.                                                 *)
PriceSet(t) ==
    /\ t \in DOMAIN data'.tokens
    /\ data'.tokens[t].for_sale
    /\ \/ t \notin DOMAIN data.tokens
       \/ ~data.tokens[t].for_sale
       \/ data.tokens[t].price # data'.tokens[t].price

C4_ListedAtOrAboveFloorInForce ==
    [][/\ \A t \in 0 .. MaxTokens :
             PriceSet(t) =>
                /\ data'.tokens[t].price >= data.min_sale_price
                /\ data'.min_sale_price = data.min_sale_price
       /\ (C4_ListedAtOrAboveFloor /\ data'.min_sale_price = data.min_sale_price)
             => C4_ListedAtOrAboveFloor']_vars

C4_Witness ==
    \E t \in DOMAIN data.tokens :
       /\ data.tokens[t].for_sale
       /\ data.tokens[t].price = 50
       /\ data.min_sale_price = 100

------------------------------------------------------------------------------
(* C5: in every reachable state platform_fee_percent <= 20 and every      *)
(* existing asset has royalty_percent <= 50; update_platform_fee called   *)
(* by the admin with a value above 20 is rejected with 'FEE: Too high'.   *)
C5_FeeAndRoyaltyBounded ==
    /\ data.platform_fee_percent <= 20
    /\ \A t \in DOMAIN data.tokens : data.tokens[t].royalty_percent <= 50
    /\ \A n \in 21 .. 23 :
          LET res == update_platform_fee(data, data.admin, 0, n)
          IN res.err = "FEE: Too high" /\ res.data = data

C5_Witness ==
    /\ data.platform_fee_percent = 20
    /\ \E t \in DOMAIN data.tokens : data.tokens[t].royalty_percent = 20

------------------------------------------------------------------------------
(* C6: for every price p, royalty_percent r in 0..50 and                  *)
(* platform_fee_percent f in 0..20 that a sale is settled with, buy and   *)
(* accept_offer compute royalty = floor(p*r/100), fee = floor(p*f/100)    *)
(* and seller_amount = p - royalty - fee, with seller_amount >= 0 and     *)
(* royalty + fee + seller_amount <= p; (100,10,5) gives 10, 5, 85 and     *)
(* (50,20,5) gives 10, 2, 38.                                             *)
IsFloor(q, num, den) == q * den <= num /\ num < (q + 1) * den

SplitAsSpecified(shares, p, r, f) ==
    /\ IsFloor(shares.royalty, p * r, 100)
    /\ IsFloor(shares.fee, p * f, 100)
    /\ shares.seller_amount = p - shares.royalty - shares.fee
    /\ shares.seller_amount >= 0
    /\ shares.royalty + shares.fee + shares.seller_amount <= p

C6_SplitIsFloorBased ==
    /\ \A t \in DOMAIN data.tokens :
          LET token == data.tokens[t] IN
          /\ token.for_sale =>
                SplitAsSpecified(buy_split(token.price, token.royalty_percent,
                                           data.platform_fee_percent),
                                 token.price, token.royalty_percent,
                                 data.platform_fee_percent)
          /\ t \in DOMAIN data.offers =>
                \A b \in DOMAIN data.offers[t] :
                   SplitAsSpecified(
                       accept_split(data.offers[t][b].amount,
                                    token.royalty_percent,
                                    data.platform_fee_percent),
                       data.offers[t][b].amount, token.royalty_percent,
                       data.platform_fee_percent)
    /\ data.platform_fee_percent = 5 =>
          /\ buy_split(100, 10, data.platform_fee_percent)
                = [royalty |-> 10, fee |-> 5, seller_amount |-> 85]
          /\ accept_split(100, 10, data.platform_fee_percent)
                = [royalty |-> 10, fee |-> 5, seller_amount |-> 85]
          /\ buy_split(50, 20, data.platform_fee_percent)
                = [royalty |-> 10, fee |-> 2, seller_amount |-> 38]
          /\ accept_split(50, 20, data.platform_fee_percent)
                = [royalty |-> 10, fee |-> 2, seller_amount |-> 38]

(* The sale of (50, 20, 5) has been settled: author and seller alice has *)
(* 10 + 38, the accumulator the mint price and 2.                        *)
C6_Witness ==
    /\ data.platform_fee_percent = 5
    /\ 0 \in DOMAIN data.tokens
    /\ data.tokens[0].royalty_percent = 20
    /\ data.tokens[0].owner = "bob"
    /\ attached = InitMintPrice + 50
    /\ get_pending(data, "alice") = 48
    /\ data.collected_fees = InitMintPrice + 2

------------------------------------------------------------------------------
(* C7: a successful buy adds fee to the fee accumulator and to no pending *)
(* balance; when the author is the seller, the seller's pending balance   *)
(* grows by seller_amount + royalty and no other changes; otherwise the   *)
(* author's grows by royalty, the seller's by seller_amount, and no other *)
(* changes.                                                               *)
BuyStep(s, a, t) ==
    /\ buy(data, s, a, t).err = "ok"
    /\ data' = buy(data, s, a, t).data

PendingGrows(who, by) ==
    get_pending(data', who) = get_pending(data, who) + by

OtherPendingSame(S) ==
    \A o \in Addrs \ S :
       /\ (o \in DOMAIN data'.pending_payments)
             <=> (o \in DOMAIN data.pending_payments)
       /\ get_pending(data', o) = get_pending(data, o)

SaleCredits(price, author, seller, royalty_percent) ==
    LET royalty == (price * royalty_percent) \div 100
        fee == (price * data.platform_fee_percent) \div 100
        seller_amount == price - royalty - fee
    IN /\ data'.collected_fees = data.collected_fees + fee
       /\ IF author = seller
          THEN /\ PendingGrows(seller, seller_amount + royalty)
               /\ OtherPendingSame({seller})
          ELSE /\ PendingGrows(author, royalty)
               /\ PendingGrows(seller, seller_amount)
               /\ OtherPendingSame({author, seller})

C7_BuyCredits ==
    [][\A s \in Addrs, a \in {50, 100}, t \in 0 .. MaxTokens :
          BuyStep(s, a, t) =>
             SaleCredits(data.tokens[t].price, data.tokens[t].author,
                         data.tokens[t].owner,
                         data.tokens[t].royalty_percent)]_vars

(* admin has bought for 50 from bob an asset of author alice *)
C7_Witness ==
    /\ 0 \in DOMAIN data.tokens
    /\ data.tokens[0].author = "alice"
    /\ data.tokens[0].owner = "admin"
    /\ data.tokens[0].royalty_percent = 20
    /\ attached = InitMintPrice + 50
    /\ get_pending(data, "alice") = 10
    /\ get_pending(data, "bob") = 38
    /\ data.collected_fees = InitMintPrice + 2

------------------------------------------------------------------------------
(* C8: a successful accept_offer(id, bidder) makes bidder the owner, sets *)
(* listed=false and price=0, removes that bidder's offer, and credits     *)
(* author, seller and the fee accumulator with the amounts of a sale at   *)
(* the offer's amount.                                                    *)
AcceptStep(s, t, b) ==
    /\ accept_offer(data, s, 0, now, t, b).err = "ok"
    /\ data' = accept_offer(data, s, 0, now, t, b).data

C8_AcceptOfferSettles ==
    [][\A s \in Addrs, t \in 0 .. MaxTokens, b \in Addrs :
          AcceptStep(s, t, b) =>
             /\ data'.tokens[t].owner = b
             /\ data'.tokens[t].for_sale = FALSE
             /\ data'.tokens[t].price = 0
             /\ b \notin DOMAIN data'.offers[t]
             /\ SaleCredits(data.offers[t][b].amount, data.tokens[t].author,
                            data.tokens[t].owner,
                            data.tokens[t].royalty_percent)]_vars

(* alice, author and owner, has accepted the offer of 50 of bob *)
C8_Witness ==
    /\ 0 \in DOMAIN data.tokens
    /\ data.tokens[0].author = "alice"
    /\ data.tokens[0].owner = "bob"
    /\ data.tokens[0].royalty_percent = 20
    /\ 0 \in DOMAIN data.offers
    /\ DOMAIN data.offers[0] = {}
    /\ attached = InitMintPrice + 50
    /\ get_pending(data, "alice") = 48
    /\ get_pending(data, "bob") = 0
    /\ received["bob"] = 0
    /\ ops = << >>

------------------------------------------------------------------------------
(* C9: a successful accept_offer(id, bidder) leaves every other offer, on *)
(* the same asset and on every other asset, unchanged; the other offers   *)
(* on the asset can then be cancelled by their bidders, accepted by the   *)
(* new owner while not expired, and are refunded by a burn.               *)
OffersOf(d) == {<<t, b>> \in (0 .. MaxTokens) \X Addrs :
                   t \in DOMAIN d.offers /\ b \in DOMAIN d.offers[t]}

C9_AcceptOfferKeepsOtherOffers ==
    [][\A s \in Addrs, t \in 0 .. MaxTokens, b \in Addrs :
          AcceptStep(s, t, b) =>
             /\ OffersOf(data') = OffersOf(data) \ {<<t, b>>}
             /\ \A o \in OffersOf(data') :
                   data'.offers[o[1]][o[2]] = data.offers[o[1]][o[2]]
             /\ \A b2 \in DOMAIN data'.offers[t] :
                   LET offer == data.offers[t][b2]
                       cancelled == cancel_offer(data', b2, 0, t)
                       accepted == accept_offer(data', b, 0, now, t, b2)
                       burned == burn(data', b, 0, t)
                   IN /\ cancelled.err = "ok"
                      /\ get_pending(cancelled.data, b2)
                            = get_pending(data', b2) + offer.amount
                      /\ accepted.err = IF now < offer.expires_at THEN "ok"
                                        ELSE "ACCEPT: Offer expired"
                      /\ burned.err = "ok"
                      /\ get_pending(burned.data, b2)
                            = get_pending(data', b2) + offer.amount]_vars

(* bob owns asset 0 by an accepted offer; the offer of admin on it and an *)
(* offer on asset 1 are still in the book                                 *)
C9_Witness ==
    /\ DOMAIN data.tokens = {0, 1}
    /\ data.tokens[0].owner = "bob"
    /\ get_pending(data, "alice") = 48
    /\ 0 \in DOMAIN data.offers
    /\ DOMAIN data.offers[0] = {"admin"}
    /\ 1 \in DOMAIN data.offers
    /\ DOMAIN data.offers[1] # {}
    /\ attached = 2 * InitMintPrice + 150

------------------------------------------------------------------------------
(* C10: when a bidder with a live offer on an asset makes another offer   *)
(* on it, the amount of the previous offer is added to the bidder's       *)
(* pending balance and the bidder has one offer on the asset, with the    *)
(* new amount and the new expiry.                                         *)
MakeOfferStep(s, a, t, n) ==
    /\ make_offer(data, s, a, now, t, n).err = "ok"
    /\ data' = make_offer(data, s, a, now, t, n).data

C10_SecondOfferRefundsFirst ==
    [][\A s \in Addrs, a \in {50, 100}, t \in 0 .. MaxTokens, n \in {1} :
          (/\ t \in DOMAIN data.offers
           /\ s \in DOMAIN data.offers[t]
           /\ MakeOfferStep(s, a, t, n)) =>
             /\ PendingGrows(s, data.offers[t][s].amount)
             /\ OtherPendingSame({s})
             /\ data'.collected_fees = data.collected_fees
             /\ OffersOf(data') = OffersOf(data)
             /\ data'.offers[t][s] = [amount |-> a, expires_at |-> now + n]
             /\ \A o \in OffersOf(data) \ {<<t, s>>} :
                   data'.offers[o[1]][o[2]] = data.offers[o[1]][o[2]]]_vars

(* bob has offered 50 twice: the first 50 are pending, the second held *)
C10_Witness ==
    /\ 0 \in DOMAIN data.offers
    /\ DOMAIN data.offers[0] = {"bob"}
    /\ data.offers[0]["bob"] = [amount |-> 50, expires_at |-> 2]
    /\ get_pending(data, "bob") = 50
    /\ attached = InitMintPrice + 100
    /\ received["bob"] = 0

------------------------------------------------------------------------------
(* C11: a successful burn(id) deletes the asset, adds to each bidder's    *)
(* pending balance exactly the amount of that bidder's live offer on the  *)
(* asset, and removes all offers of the asset; offers on other assets and *)
(* the fee accumulator are unchanged.                                     *)
BurnStep(s, t) ==
    /\ burn(data, s, 0, t).err = "ok"
    /\ data' = burn(data, s, 0, t).data

OfferAmount(d, t, b) ==
    IF t \in DOMAIN d.offers /\ b \in DOMAIN d.offers[t]
    THEN d.offers[t][b].amount
    ELSE 0

C11_BurnRefundsOffers ==
    [][\A s \in Addrs, t \in 0 .. MaxTokens :
          BurnStep(s, t) =>
             /\ DOMAIN data'.tokens = DOMAIN data.tokens \ {t}
             /\ \A u \in DOMAIN data'.tokens : data'.tokens[u] = data.tokens[u]
             /\ \A b \in Addrs : PendingGrows(b, OfferAmount(data, t, b))
             /\ t \notin DOMAIN data'.offers
             /\ OffersOf(data') = {o \in OffersOf(data) : o[1] # t}
             /\ \A o \in OffersOf(data') :
                   data'.offers[o[1]][o[2]] = data.offers[o[1]][o[2]]
             /\ data'.collected_fees = data.collected_fees]_vars

(* asset 0 was burned under the offers of 50 of bob and of admin, both    *)
(* now pending, while an offer on asset 1 is still in the book            *)
C11_Witness ==
    /\ data.next_id = 2
    /\ DOMAIN data.tokens = {1}
    /\ 0 \notin DOMAIN data.offers
    /\ OffersOf(data) # {}
    /\ get_pending(data, "bob") = 50
    /\ get_pending(data, "admin") = 50
    /\ attached = 2 * InitMintPrice + 150
    /\ data.collected_fees = 2 * InitMintPrice

------------------------------------------------------------------------------
(* The calls of the admin-only entry points by one sender *)
AdminCalls(d, s) ==
    {set_pause(d, s, 0, b) : b \in BOOLEAN}
    \cup {propose_admin(d, s, 0, x) : x \in Addrs \ {d.admin}}
    \cup {cancel_admin_change(d, s, 0), withdraw_fees(d, s, 0)}
    \cup {update_platform_fee(d, s, 0, f) : f \in {0, 5, 20, 21}}
    \cup {update_mint_price(d, s, 0, p) : p \in {0, 1}}
    \cup {update_min_sale_price(d, s, 0, p) : p \in {50, 100}}

NotAdminErrors ==
    {"PAUSE: Not admin", "ADMIN: Not admin", "FEES: Not admin",
     "FEE: Not admin", "PRICE: Not admin"}

(* Every admin-only entry point rejects s for not being the admin *)
RejectedAsNotAdmin(d, s) ==
    \A res \in AdminCalls(d, s) :
       res.err \in NotAdminErrors /\ res.data = d /\ res.ops = << >>

(* No admin-only entry point rejects s for not being the admin *)
AcceptedAsAdmin(d, s) ==
    /\ \A res \in AdminCalls(d, s) : res.err \notin NotAdminErrors
    /\ \A b \in BOOLEAN : set_pause(d, s, 0, b).err = "ok"
    /\ \A x \in Addrs \ {s} : propose_admin(d, s, 0, x).err = "ok"
    /\ cancel_admin_change(d, s, 0).err = "ok"
    /\ update_platform_fee(d, s, 0, 20).err = "ok"
    /\ update_mint_price(d, s, 0, 0).err = "ok"
    /\ update_min_sale_price(d, s, 0, 100).err = "ok"
    /\ withdraw_fees(d, s, 0).err
          = IF d.collected_fees > 0 THEN "ok" ELSE "FEES: Nothing to withdraw"

AcceptAdminStep(s) ==
    /\ accept_admin(data, s, 0).err = "ok"
    /\ data' = accept_admin(data, s, 0).data

------------------------------------------------------------------------------
(* C12: after propose_admin(X), accept_admin called by any address other  *)
(* than X fails and changes nothing; called by X it succeeds, X becomes   *)
(* admin, pending_admin is cleared, and from that step on the old admin   *)
(* is rejected by every admin-only operation while X is accepted.         *)
C12_AdminHandover ==
    [][/\ \A s \in Addrs :
             /\ (data.pending_admin # NoAddr /\ s # data.pending_admin) =>
                   /\ accept_admin(data, s, 0).err = "ADMIN: Not proposed admin"
                   /\ accept_admin(data, s, 0).data = data
                   /\ accept_admin(data, s, 0).ops = << >>
             /\ (data.pending_admin # NoAddr /\ s = data.pending_admin) =>
                   accept_admin(data, s, 0).err = "ok"
             /\ AcceptAdminStep(s) =>
                   /\ s = data.pending_admin
                   /\ data'.admin = s
                   /\ data'.pending_admin = NoAddr
                   /\ data' = [data EXCEPT !.admin = s,
                                           !.pending_admin = NoAddr]
                   /\ data.admin # s
                   /\ RejectedAsNotAdmin(data', data.admin)
                   /\ AcceptedAsAdmin(data', s)
       /\ \A s \in Addrs \ {data'.admin} : RejectedAsNotAdmin(data', s)
       /\ AcceptedAsAdmin(data', data'.admin)]_vars

(* alice has taken over from admin and has paused the contract, which *)
(* admin can no longer do                                             *)
C12_Witness ==
    /\ data.admin = "alice"
    /\ data.pending_admin = NoAddr
    /\ data.paused
    /\ set_pause(data, "admin", 0, FALSE).err = "PAUSE: Not admin"
    /\ set_pause(data, "alice", 0, FALSE).err = "ok"

------------------------------------------------------------------------------
(* C13: in every reachable state, pending_admin, if present, is different *)
(* from admin.                                                            *)
C13_PendingAdminIsNotAdmin ==
    data.pending_admin # NoAddr => data.pending_admin # data.admin

(* admin has handed over to alice, who proposes admin back *)
C13_Witness ==
    /\ data.admin = "alice"
    /\ data.pending_admin = "admin"

------------------------------------------------------------------------------
(* C14 as the specification states it: pending_admin is set only by a     *)
(* propose_admin accepted in the Stable state (no pending admin), and the *)
(* state returns to Stable only through accept_admin (admin becomes the   *)
(* former pending admin) or cancel_admin_change (admin unchanged).        *)
ProposeStep(x) ==
    /\ propose_admin(data, data.admin, 0, x).err = "ok"
    /\ data' = propose_admin(data, data.admin, 0, x).data

CancelAdminStep ==
    /\ cancel_admin_change(data, data.admin, 0).err = "ok"
    /\ data' = cancel_admin_change(data, data.admin, 0).data

PendingAdminSet ==
    data'.pending_admin # NoAddr /\ data'.pending_admin # data.pending_admin

BackToStable ==
    data.pending_admin # NoAddr /\ data'.pending_admin = NoAddr

ReturnsByAcceptOrCancel ==
    BackToStable =>
       \/ AcceptAdminStep(data.pending_admin)
             /\ data'.admin = data.pending_admin
       \/ CancelAdminStep /\ data'.admin = data.admin

C14_ProposedOnlyFromStable ==
    [][/\ PendingAdminSet =>
             /\ data.pending_admin = NoAddr
             /\ \E x \in Addrs \ {data.admin} : ProposeStep(x)
       /\ ReturnsByAcceptOrCancel]_vars

(* C14 amended: pending_admin is set, or replaced while a proposal is     *)
(* pending, only through a propose_admin of the admin for another         *)
(* address, and the state returns to Stable only through accept_admin     *)
(* (admin becomes the former pending admin) or cancel_admin_change (admin *)
(* unchanged).                                                            *)
C14_ProposedOnlyByPropose ==
    [][/\ PendingAdminSet =>
             \E x \in Addrs \ {data.admin} :
                ProposeStep(x) /\ data'.pending_admin = x
       /\ ReturnsByAcceptOrCancel]_vars

(* alice is proposed, and the admin's proposal of bob is accepted and *)
(* replaces her                                                       *)
C14_Witness ==
    /\ data.admin = "admin"
    /\ data.pending_admin = "alice"
    /\ propose_admin(data, "admin", 0, "bob").err = "ok"
    /\ propose_admin(data, "admin", 0, "bob").data.pending_admin = "bob"

------------------------------------------------------------------------------
(* C15: every step that changes the pause flag, platform_fee_percent,     *)
(* mint_price or min_sale_price, that sets or cancels the pending admin,  *)
(* or that pays out the fee accumulator is a call made by the current     *)
(* admin, every other caller of these entry points being rejected; admin  *)
(* itself changes only in an accept_admin made by the pending admin.      *)
FeesPaidOut ==
    /\ Len(ops') = Len(ops) + 1
    /\ ops'[Len(ops')].kind = "fees"

ConfigurationChanged ==
    \/ data'.paused # data.paused
    \/ data'.platform_fee_percent # data.platform_fee_percent
    \/ data'.mint_price # data.mint_price
    \/ data'.min_sale_price # data.min_sale_price
    \/ data'.pending_admin # data.pending_admin /\ data'.admin = data.admin
    \/ FeesPaidOut

CallByAdmin ==
    \E res \in AdminCalls(data, data.admin) :
       /\ res.err = "ok"
       /\ data' = res.data
       /\ ops' = ops \o res.ops

C15_AdminOnly ==
    [][/\ ConfigurationChanged => CallByAdmin
       /\ FeesPaidOut => ops'[Len(ops')].to = data.admin
       /\ data'.admin # data.admin =>
             /\ data.pending_admin # NoAddr
             /\ AcceptAdminStep(data.pending_admin)
             /\ data'.admin = data.pending_admin
       /\ \A s \in Addrs \ {data.admin} :
             /\ RejectedAsNotAdmin(data, s)
             /\ s # data.pending_admin => accept_admin(data, s, 0).err # "ok"]_vars

(* alice, admin by handover, has paused, set the fee and the prices and *)
(* been paid the fee accumulator                                        *)
C15_Witness ==
    /\ data.admin = "alice"
    /\ data.paused
    /\ data.platform_fee_percent = 20
    /\ data.mint_price = 0
    /\ data.min_sale_price = 100
    /\ data.pending_admin = "bob"
    /\ fees_paid = InitMintPrice
    /\ RejectedAsNotAdmin(data, "admin")

------------------------------------------------------------------------------
(* C16: when max_supply = N > 0, the id counter never exceeds N: the N-th *)
(* mint succeeds and no later mint ever succeeds, whoever calls it and    *)
(* however many assets were burned in between; with max_supply = 0 the    *)
(* cap never rejects a mint.                                              *)
MintCalls(d, s) ==
    {mint(d, s, a, now, m, r) :
        a \in {0, d.mint_price}, m \in {"", "ipfs://Qm1", "ipfs://Qm1x"},
        r \in {20, 51}}

C16_SupplyCap ==
    /\ data.max_supply > 0 => data.next_id <= data.max_supply
    /\ \A s \in Addrs :
          LET res == mint(data, s, data.mint_price, now, "ipfs://Qm1", 20) IN
          IF data.max_supply > 0 /\ data.next_id >= data.max_supply
          THEN /\ res.err = "MINT: Max supply reached"
               /\ res.data = data
               /\ \A other \in MintCalls(data, s) : other.err # "ok"
          ELSE /\ res.err = "ok"
               /\ res.data.next_id = data.next_id + 1
    /\ data.max_supply = 0 =>
          \A s \in Addrs : \A res \in MintCalls(data, s) :
             res.err # "MINT: Max supply reached"

(* the two ids of a supply of two were issued and burned, and the third *)
(* mint is rejected                                                     *)
C16_Witness ==
    /\ data.max_supply = 2
    /\ data.next_id = 2
    /\ DOMAIN data.tokens = {}
    /\ mint(data, "bob", data.mint_price, now, "ipfs://Qm1", 20).err
          = "MINT: Max supply reached"

------------------------------------------------------------------------------
(* C17: the id counter never decreases and grows by exactly one on each   *)
(* successful mint, which creates the asset under the counter's previous  *)
(* value; every existing asset id is below the counter, and an id whose   *)
(* asset was burned never holds an asset again.                           *)
MintStep(s) ==
    /\ mint(data, s, data.mint_price, now, "ipfs://Qm1", 20).err = "ok"
    /\ data' = mint(data, s, data.mint_price, now, "ipfs://Qm1", 20).data

(* The ids issued whose asset was burned *)
BurnedIds(d) == (0 .. (d.next_id - 1)) \ DOMAIN d.tokens

C17_IdsNeverReused ==
    [][/\ data'.next_id >= data.next_id
       /\ \A s \in Addrs :
             MintStep(s) =>
                /\ data'.next_id = data.next_id + 1
                /\ data.next_id \notin DOMAIN data.tokens
                /\ DOMAIN data'.tokens = DOMAIN data.tokens \cup {data.next_id}
                /\ data'.tokens[data.next_id].owner = s
                /\ \A t \in DOMAIN data.tokens :
                      data'.tokens[t] = data.tokens[t]
       /\ data'.next_id # data.next_id => \E s \in Addrs : MintStep(s)
       /\ \A t \in DOMAIN data'.tokens : t < data'.next_id
       /\ BurnedIds(data) \subseteq BurnedIds(data')]_vars

(* id 1 was burned before id 2 was issued, and holds no asset *)
C17_Witness ==
    /\ data.next_id = 3
    /\ DOMAIN data.tokens = {0, 2}
    /\ data.tokens[2].owner = "bob"
    /\ BurnedIds(data) = {1}

------------------------------------------------------------------------------
(* C18: for an unlisted asset, a successful list_for_sale followed        *)
(* immediately by cancel_sale by the owner leaves the whole state         *)
(* identical to the state before the listing: price=0, listed=false and   *)
(* nothing else changed.                                                  *)
C18_ListThenCancelRestores ==
    \A t \in DOMAIN data.tokens, s \in Addrs, p \in {50, 100} :
       LET listed == list_for_sale(data, s, 0, t, p)
           cancelled == cancel_sale(listed.data, s, 0, t)
       IN listed.err = "ok" =>
             /\ s = data.tokens[t].owner
             /\ ~data.tokens[t].for_sale
             /\ listed.data.tokens[t].for_sale
             /\ listed.data.tokens[t].price = p
             /\ cancelled.err = "ok"
             /\ cancelled.data.tokens[t].price = 0
             /\ cancelled.data.tokens[t].for_sale = FALSE
             /\ cancelled.data = data

(* bob, who bought the asset of alice, can list it again, with the offer *)
(* of alice on it in the book                                            *)
C18_Witness ==
    /\ 0 \in DOMAIN data.tokens
    /\ data.tokens[0].owner = "bob"
    /\ data.tokens[0].author = "alice"
    /\ ~data.tokens[0].for_sale
    /\ list_for_sale(data, "bob", 0, 0, 50).err = "ok"
    /\ cancel_sale(list_for_sale(data, "bob", 0, 0, 50).data, "bob", 0, 0).err
          = "ok"

------------------------------------------------------------------------------
(* C19: a successful withdraw pays the caller exactly their pending       *)
(* balance and deletes their ledger entry; a second withdraw by the same  *)
(* caller with no credit in between fails with 'WITHDRAW: Nothing         *)
(* pending' and pays nothing.                                             *)
WithdrawDelivered(a) ==
    /\ Len(ops') = Len(ops) - 1
    /\ ops[Len(ops)].kind = "withdraw"
    /\ ops[Len(ops)].to = a

C19_WithdrawPaysOnce ==
    [][\A a \in Addrs :
          /\ WithdrawEmits(a) =>
                /\ a \in DOMAIN data.pending_payments
                /\ ops'[Len(ops')].amount = data.pending_payments[a]
                /\ ops'[Len(ops')].amount > 0
                /\ data' = [data EXCEPT !.pending_payments = Del(@, a)]
                /\ a \notin DOMAIN data'.pending_payments
          /\ WithdrawDelivered(a) =>
                received'[a] = received[a] + ops[Len(ops)].amount
          /\ a \notin DOMAIN data'.pending_payments =>
                /\ withdraw(data', a, 0).err = "WITHDRAW: Nothing pending"
                /\ withdraw(data', a, 0).data = data'
                /\ withdraw(data', a, 0).ops = << >>
          /\ a \in DOMAIN data'.pending_payments =>
                /\ withdraw(data', a, 0).err = "ok"
                /\ withdraw(data', a, 0).ops =
                      << [to |-> a, amount |-> data'.pending_payments[a],
                          kind |-> "withdraw"] >>]_vars

(* alice has been paid all that the sale of her asset credited to her, *)
(* and a further withdraw is rejected                                  *)
C19_Witness ==
    /\ received["alice"] > 0
    /\ received["alice"] = credited["alice"]
    /\ ops = << >>
    /\ "alice" \notin DOMAIN data.pending_payments
    /\ withdraw(data, "alice", 0).err = "WITHDRAW: Nothing pending"

------------------------------------------------------------------------------
(* C20: while the pause flag is set, every call to mint, list_for_sale,   *)
(* update_price, buy, make_offer, accept_offer and transfer is rejected,  *)
(* so in a paused state no asset is created, listed, repriced or changes  *)
(* owner and no offer is created or accepted.                             *)
PausedCalls(d, s, a, t) ==
    [mint |-> {mint(d, s, a, now, m, r) :
                  m \in {"", "ipfs://Qm1"}, r \in {20, 51}},
     list_for_sale |-> {list_for_sale(d, s, a, t, p) : p \in {0, 50, 100}},
     update_price |-> {update_price(d, s, a, t, p) : p \in {0, 50, 100}},
     buy |-> {buy(d, s, a, t)},
     make_offer |-> {make_offer(d, s, a, now, t, n) : n \in {0, 1}},
     accept_offer |-> {accept_offer(d, s, a, now, t, b) : b \in Addrs},
     transfer |-> {transfer(d, s, a, t, b) : b \in Addrs \cup {BurnAddress}}]

PausedErrors ==
    [mint |-> "MINT: Contract paused",
     list_for_sale |-> "LIST: Contract paused",
     update_price |-> "UPDATE: Contract paused",
     buy |-> "BUY: Contract paused",
     make_offer |-> "OFFER: Contract paused",
     accept_offer |-> "ACCEPT: Contract paused",
     transfer |-> "TRANSFER: Contract paused"]

RejectedAsPaused(d) ==
    \A s \in Addrs, a \in {0, 1, 50}, t \in {0, 1} :
       \A e \in DOMAIN PausedErrors :
          \A res \in PausedCalls(d, s, a, t)[e] :
             res.err = PausedErrors[e] /\ res.data = d /\ res.ops = << >>

C20_PausedMarketIsFrozen ==
    /\ [](data.paused => RejectedAsPaused(data))
    /\ [][data.paused =>
             /\ data'.next_id = data.next_id
             /\ DOMAIN data'.tokens \subseteq DOMAIN data.tokens
             /\ \A t \in DOMAIN data'.tokens :
                   /\ data'.tokens[t].owner = data.tokens[t].owner
                   /\ data'.tokens[t].for_sale =>
                         /\ data.tokens[t].for_sale
                         /\ data'.tokens[t].price = data.tokens[t].price
             /\ OffersOf(data') \subseteq OffersOf(data)
             /\ \A o \in OffersOf(data') :
                   data'.offers[o[1]][o[2]] = data.offers[o[1]][o[2]]]_vars

(* paused with an unlisted asset of alice under an offer of bob: the   *)
(* transfer and the acceptance that would go through are rejected      *)
C20_Witness ==
    /\ data.paused
    /\ 0 \in DOMAIN data.tokens
    /\ data.tokens[0].owner = "alice"
    /\ ~data.tokens[0].for_sale
    /\ <<0, "bob">> \in OffersOf(data)
    /\ transfer(data, "alice", 0, 0, "bob").err = "TRANSFER: Contract paused"
    /\ transfer([data EXCEPT !.paused = FALSE], "alice", 0, 0, "bob").err = "ok"
    /\ accept_offer(data, "alice", 0, now, 0, "bob").err
          = "ACCEPT: Contract paused"

------------------------------------------------------------------------------
(* C21: while paused, cancel_sale, burn, cancel_offer and withdraw still  *)
(* succeed whenever their other preconditions hold, so from any reachable *)
(* state an owner can delist and then burn their asset, and any bidder or *)
(* payee can recover their funds, without the admin lifting the pause.    *)
OwnerCanExit(d, t) ==
    LET owner == d.tokens[t].owner
        delisted == IF d.tokens[t].for_sale
                    THEN cancel_sale(d, owner, 0, t)
                    ELSE Done(d, << >>)
        burned == burn(delisted.data, owner, 0, t)
    IN /\ delisted.err = "ok"
       /\ delisted.data.paused = d.paused
       /\ ~delisted.data.tokens[t].for_sale
       /\ burned.err = "ok"
       /\ burned.data.paused = d.paused
       /\ t \notin DOMAIN burned.data.tokens

BidderCanRecover(d, t, b) ==
    LET cancelled == cancel_offer(d, b, 0, t)
        paid == withdraw(cancelled.data, b, 0)
    IN /\ cancelled.err = "ok"
       /\ cancelled.data.paused = d.paused
       /\ paid.err = "ok"
       /\ paid.data.paused = d.paused
       /\ paid.ops = << [to |-> b,
                         amount |-> get_pending(d, b) + d.offers[t][b].amount,
                         kind |-> "withdraw"] >>

PayeeCanWithdraw(d, a) ==
    /\ withdraw(d, a, 0).err = "ok"
    /\ withdraw(d, a, 0).ops =
          << [to |-> a, amount |-> d.pending_payments[a],
              kind |-> "withdraw"] >>

C21_ExitWhilePaused ==
    /\ \A t \in DOMAIN data.tokens : OwnerCanExit(data, t)
    /\ \A o \in OffersOf(data) : BidderCanRecover(data, o[1], o[2])
    /\ \A a \in DOMAIN data.pending_payments : PayeeCanWithdraw(data, a)

(* paused, with the asset of alice listed and an offer of bob on it *)
C21_Witness ==
    /\ data.paused
    /\ 0 \in DOMAIN data.tokens
    /\ data.tokens[0].for_sale
    /\ data.tokens[0].owner = "alice"
    /\ <<0, "bob">> \in OffersOf(data)
    /\ burn(cancel_sale(data, "alice", 0, 0).data, "alice", 0, 0).err = "ok"

------------------------------------------------------------------------------
(* C22: transfer(id, to) succeeds only when the contract is not paused,   *)
(* no value is attached, the asset exists and is not listed, the caller   *)
(* is its owner, and to is neither the caller nor the sentinel burn       *)
(* address; on success only the asset's owner changes: author,            *)
(* royalty_percent, price, listing flag, offers and all balances are      *)
(* unchanged.                                                             *)
TransferAllowed(d, s, a, t, to) ==
    /\ ~d.paused
    /\ a = 0
    /\ t \in DOMAIN d.tokens
    /\ ~d.tokens[t].for_sale
    /\ d.tokens[t].owner = s
    /\ to # s
    /\ to # BurnAddress

C22_TransferMovesOwnerOnly ==
    \A s \in Addrs, a \in {0, 1}, t \in 0 .. MaxTokens,
       to \in Addrs \cup {BurnAddress} :
       LET res == transfer(data, s, a, t, to) IN
       /\ res.err = "ok" <=> TransferAllowed(data, s, a, t, to)
       /\ res.err = "ok" =>
             /\ res.data.tokens[t].owner = to
             /\ res.data.tokens[t].author = data.tokens[t].author
             /\ res.data.tokens[t].royalty_percent
                   = data.tokens[t].royalty_percent
             /\ res.data.tokens[t].price = data.tokens[t].price
             /\ res.data.tokens[t].for_sale = data.tokens[t].for_sale
             /\ res.data.offers = data.offers
             /\ res.data.pending_payments = data.pending_payments
             /\ res.data.collected_fees = data.collected_fees
             /\ res.data = [data EXCEPT !.tokens[t].owner = to]
             /\ res.ops = << >>

(* bob owns the asset of author alice though nothing but the mint was *)
(* ever paid: it was transferred to him                               *)
C22_Witness ==
    /\ 0 \in DOMAIN data.tokens
    /\ data.tokens[0].author = "alice"
    /\ data.tokens[0].owner = "bob"
    /\ attached <= InitMintPrice
    /\ transfer(data, "bob", 0, 0, "alice").err
          = IF data.paused THEN "TRANSFER: Contract paused" ELSE "ok"
    /\ transfer(data, "bob", 0, 0, BurnAddress).err # "ok"

------------------------------------------------------------------------------
(* C23: buy(id) succeeds exactly when the contract is not paused, the     *)
(* asset exists and is listed, the caller is not its owner, and the       *)
(* attached payment equals the asset's listed price at the moment the     *)
(* call runs; afterwards the caller is the owner and the asset is         *)
(* unlisted with price 0.                                                 *)
BuyAllowed(d, s, a, t) ==
    /\ ~d.paused
    /\ t \in DOMAIN d.tokens
    /\ d.tokens[t].for_sale
    /\ s # d.tokens[t].owner
    /\ a = d.tokens[t].price

C23_BuyExactlyWhenAllowed ==
    \A s \in Addrs, a \in {0, 1, 50, 100}, t \in 0 .. MaxTokens :
       LET res == buy(data, s, a, t) IN
       /\ res.err = "ok" <=> BuyAllowed(data, s, a, t)
       /\ res.err = "ok" =>
             /\ res.data.tokens[t].owner = s
             /\ res.data.tokens[t].for_sale = FALSE
             /\ res.data.tokens[t].price = 0

(* bob has paid the listed price of 50 and owns the unlisted asset, on  *)
(* which no offer was ever made                                        *)
C23_Witness ==
    /\ 0 \in DOMAIN data.tokens
    /\ data.tokens[0].owner = "bob"
    /\ ~data.tokens[0].for_sale
    /\ data.tokens[0].price = 0
    /\ DOMAIN data.offers = {}
    /\ attached >= 50
    /\ get_pending(data, "alice") > 0

------------------------------------------------------------------------------
(* C24: for every asset, author and royalty_percent keep the values set   *)
(* at mint for as long as the asset exists, through every listing, sale,  *)
(* offer acceptance and transfer; so the royalty of every later resale is *)
(* credited to the original author.                                       *)
Kept(t) == t \in DOMAIN data.tokens /\ t \in DOMAIN data'.tokens

(* The step sells asset t: by a purchase, which attaches the price, or *)
(* by the acceptance of the offer of the new owner, which leaves the   *)
(* book                                                                *)
SoldByBuy(t) ==
    /\ Kept(t)
    /\ data'.tokens[t].owner # data.tokens[t].owner
    /\ attached' # attached

SoldByAccept(t) ==
    /\ Kept(t)
    /\ data'.tokens[t].owner # data.tokens[t].owner
    /\ attached' = attached
    /\ <<t, data'.tokens[t].owner>> \in OffersOf(data) \ OffersOf(data')

RoyaltyToAuthor(t, price) ==
    LET token == data.tokens[t]
        royalty == (price * token.royalty_percent) \div 100
        fee == (price * data.platform_fee_percent) \div 100
    IN get_pending(data', token.author) - get_pending(data, token.author)
          = IF token.author = token.owner THEN price - fee ELSE royalty

C24_AuthorAndRoyaltyKept ==
    [][\A t \in 0 .. MaxTokens :
          /\ Kept(t) =>
                /\ data'.tokens[t].author = data.tokens[t].author
                /\ data'.tokens[t].royalty_percent
                      = data.tokens[t].royalty_percent
          /\ SoldByBuy(t) => RoyaltyToAuthor(t, attached' - attached)
          /\ SoldByAccept(t) =>
                RoyaltyToAuthor(t,
                    data.offers[t][data'.tokens[t].owner].amount)]_vars

(* the asset of author alice was sold twice for 50: to bob, and by bob *)
(* to admin, and alice has her 48 and the royalty of the resale        *)
C24_Witness ==
    /\ 0 \in DOMAIN data.tokens
    /\ data.tokens[0].author = "alice"
    /\ data.tokens[0].owner = "admin"
    /\ data.tokens[0].royalty_percent = 20
    /\ attached = InitMintPrice + 100
    /\ get_pending(data, "alice") = 58
    /\ get_pending(data, "bob") = 38
    /\ data.collected_fees = InitMintPrice + 4

------------------------------------------------------------------------------
(* C25: whenever a bidder has a live offer on an asset, cancel_offer(id)  *)
(* by that bidder with no attached value succeeds, whether or not the     *)
(* contract is paused, the offer has expired or the asset is listed,      *)
(* removes exactly that offer and adds its full amount to the bidder's    *)
(* pending balance; a bidder with no offer on the asset is rejected.      *)
NoPendingChangeBut(d, e, b) ==
    \A o \in Addrs \ {b} :
       /\ (o \in DOMAIN e.pending_payments) <=> (o \in DOMAIN d.pending_payments)
       /\ get_pending(e, o) = get_pending(d, o)

C25_CancelOfferAlwaysRefunds ==
    \A t \in 0 .. MaxTokens, b \in Addrs :
       LET res == cancel_offer(data, b, 0, t) IN
       IF <<t, b>> \in OffersOf(data)
       THEN /\ res.err = "ok"
            /\ OffersOf(res.data) = OffersOf(data) \ {<<t, b>>}
            /\ \A o \in OffersOf(res.data) :
                  res.data.offers[o[1]][o[2]] = data.offers[o[1]][o[2]]
            /\ get_pending(res.data, b)
                  = get_pending(data, b) + data.offers[t][b].amount
            /\ NoPendingChangeBut(data, res.data, b)
            /\ res.data.tokens = data.tokens
            /\ res.data.collected_fees = data.collected_fees
            /\ res.ops = << >>
            /\ cancel_offer(data, b, 50, t).err
                  = "CANCEL_OFFER: No tez expected"
       ELSE /\ res.err \in {"CANCEL_OFFER: No offers on token",
                            "CANCEL_OFFER: No offer from you"}
            /\ res.data = data
            /\ res.ops = << >>

(* paused, with the offer of bob expired on a listed asset *)
C25_Witness ==
    /\ data.paused
    /\ 0 \in DOMAIN data.tokens
    /\ data.tokens[0].for_sale
    /\ <<0, "bob">> \in OffersOf(data)
    /\ data.offers[0]["bob"].expires_at <= now
    /\ accept_offer([data EXCEPT !.paused = FALSE], data.tokens[0].owner, 0,
                    now, 0, "bob").err = "ACCEPT: Offer expired"
    /\ cancel_offer(data, "bob", 0, 0).err = "ok"
    /\ cancel_offer(data, "admin", 0, 0).err # "ok"

------------------------------------------------------------------------------
(* C26: a successful mint by caller c with attached payment equal to      *)
(* mint_price creates the asset under the current counter value with      *)
(* author = owner = c, listed=false, price=0 and the given royalty,       *)
(* increments the counter by one, and adds the attached payment to the    *)
(* fee accumulator without crediting any pending balance; a payment       *)
(* different from mint_price (higher or lower) is rejected.               *)
C26_MintCreatesAsset ==
    \A c \in Addrs, a \in 0 .. 2, r \in {0, 20, 50} :
       LET res == mint(data, c, a, now, "ipfs://Qm1", r) IN
       /\ a # data.mint_price =>
             /\ res.err = "MINT: Invalid amount"
             /\ res.data = data
       /\ res.err = "ok" =>
             /\ a = data.mint_price
             /\ data.next_id \notin DOMAIN data.tokens
             /\ DOMAIN res.data.tokens = DOMAIN data.tokens \cup {data.next_id}
             /\ \A t \in DOMAIN data.tokens :
                   res.data.tokens[t] = data.tokens[t]
             /\ res.data.tokens[data.next_id].author = c
             /\ res.data.tokens[data.next_id].owner = c
             /\ res.data.tokens[data.next_id].for_sale = FALSE
             /\ res.data.tokens[data.next_id].price = 0
             /\ res.data.tokens[data.next_id].royalty_percent = r
             /\ res.data.tokens[data.next_id].created_at = now
             /\ res.data.next_id = data.next_id + 1
             /\ res.data.collected_fees = data.collected_fees + a
             /\ res.data.pending_payments = data.pending_payments
             /\ res.data.offers = data.offers
             /\ res.ops = << >>

(* bob has minted the second asset for the mint price; a third mint is *)
(* accepted for that price and for no other                            *)
C26_Witness ==
    /\ data.next_id = 2
    /\ 1 \in DOMAIN data.tokens
    /\ data.tokens[1].author = "bob"
    /\ data.tokens[1].owner = "bob"
    /\ data.collected_fees = 2 * InitMintPrice
    /\ attached = 2 * InitMintPrice
    /\ DOMAIN data.pending_payments = {}
    /\ mint(data, "admin", InitMintPrice, now, "ipfs://Qm1", 20).err = "ok"
    /\ mint(data, "admin", InitMintPrice + 1, now, "ipfs://Qm1", 20).err
          = "MINT: Invalid amount"

------------------------------------------------------------------------------
(* C27: withdraw_fees succeeds only for the current admin and only when   *)
(* the fee accumulator is positive; it sets the accumulator to 0 before   *)
(* the transfer and pays exactly the previous accumulator value to the    *)
(* current admin; a second call with no fee collected in between fails    *)
(* with 'FEES: Nothing to withdraw'.                                      *)
C27_WithdrawFeesPaysOnce ==
    /\ [](\A s \in Addrs :
            LET res == withdraw_fees(data, s, 0) IN
            /\ res.err = "ok" <=> (s = data.admin /\ data.collected_fees > 0)
            /\ res.err = "ok" =>
                  /\ res.data = [data EXCEPT !.collected_fees = 0]
                  /\ res.ops = << [to |-> data.admin,
                                    amount |-> data.collected_fees,
                                    kind |-> "fees"] >>
                  /\ withdraw_fees(res.data, res.data.admin, 0).err
                        = "FEES: Nothing to withdraw"
                  /\ withdraw_fees(res.data, res.data.admin, 0).ops = << >>)
    /\ [][/\ FeesPaidOut =>
                /\ data.collected_fees > 0
                /\ data'.collected_fees = 0
                /\ ops'[Len(ops')] = [to |-> data.admin,
                                      amount |-> data.collected_fees,
                                      kind |-> "fees"]
          /\ (Len(ops') = Len(ops) - 1 /\ ops[Len(ops)].kind = "fees") =>
                /\ fees_paid' = fees_paid + ops[Len(ops)].amount
                /\ data'.collected_fees = data.collected_fees]_vars

(* the admin was paid the mint price and the fee of a sale, and a second *)
(* withdraw_fees is rejected                                            *)
C27_Witness ==
    /\ fees_paid > InitMintPrice
    /\ data.collected_fees = 0
    /\ ops = << >>
    /\ withdraw_fees(data, data.admin, 0).err = "FEES: Nothing to withdraw"

------------------------------------------------------------------------------
(* C28: queries return defaults for absent subjects: get_price returns    *)
(* the listed price for an existing listed asset and 0 for an unlisted or *)
(* missing one, is_for_sale returns false for a missing asset,            *)
(* get_pending returns 0 for an address with no ledger entry,             *)
(* get_total_supply returns the id counter (burned assets still counted), *)
(* while get_token and get_owner fail with 'VIEW: Token not found' for an *)
(* id that was never minted or was burned.                                *)
ViewsOf(d) ==
    /\ \A t \in 0 .. MaxTokens :
          IF t \in DOMAIN d.tokens
          THEN /\ get_price(d, t) = IF d.tokens[t].for_sale
                                    THEN d.tokens[t].price ELSE 0
               /\ is_for_sale(d, t) = d.tokens[t].for_sale
               /\ get_token(d, t) = Returned(d.tokens[t])
               /\ get_owner(d, t) = Returned(d.tokens[t].owner)
          ELSE /\ get_price(d, t) = 0
               /\ is_for_sale(d, t) = FALSE
               /\ get_token(d, t).err = "VIEW: Token not found"
               /\ get_owner(d, t).err = "VIEW: Token not found"
    /\ \A a \in Addrs :
          get_pending(d, a) = IF a \in DOMAIN d.pending_payments
                              THEN d.pending_payments[a] ELSE 0
    /\ get_total_supply(d) = d.next_id
    /\ \A t \in DOMAIN d.tokens : t < get_total_supply(d)

C28_ViewsReturnDefaults ==
    /\ [](ViewsOf(data))
    /\ [][\A t \in 0 .. MaxTokens :
             /\ (t \in DOMAIN data.tokens /\ t \notin DOMAIN data'.tokens) =>
                   /\ get_total_supply(data') = get_total_supply(data)
                   /\ get_token(data', t).err = "VIEW: Token not found"
                   /\ get_owner(data', t).err = "VIEW: Token not found"
                   /\ get_price(data', t) = 0
                   /\ is_for_sale(data', t) = FALSE
             /\ (t \notin DOMAIN data.tokens /\ t \in DOMAIN data'.tokens) =>
                   /\ get_total_supply(data') = get_total_supply(data) + 1
                   /\ get_owner(data', t).err = "ok"]_vars

(* the one asset issued was burned: it is still counted, and unknown to *)
(* get_token and get_owner                                              *)
C28_Witness ==
    /\ get_total_supply(data) = 1
    /\ DOMAIN data.tokens = {}
    /\ get_token(data, 0).err = "VIEW: Token not found"
    /\ get_owner(data, 0).err = "VIEW: Token not found"
    /\ get_price(data, 0) = 0
    /\ \E a \in Addrs : get_pending(data, a) > 0

------------------------------------------------------------------------------
(* C29: a listing is consumed at most once: after one successful          *)
(* list_for_sale on an asset and with no further listing of it, at most   *)
(* one call among all later buy and cancel_sale calls on that asset       *)
(* succeeds, in whatever order competing callers are sequenced; a buy     *)
(* sequenced after a cancel_sale or after another buy fails with 'BUY:    *)
(* Not for sale' and moves no value.                                      *)
ListingConsumers(d, t) ==
    {buy(d, s, a, t) : s \in Addrs, a \in {50, 100}}
    \cup {cancel_sale(d, s, 0, t) : s \in Addrs}

(* Once the listing of t is consumed in d, no buy and no cancel_sale is *)
(* accepted                                                             *)
ListingGone(d, t) ==
    /\ \A res \in ListingConsumers(d, t) :
          res.err # "ok" /\ res.data = d /\ res.ops = << >>
    /\ \A s \in Addrs, a \in {50, 100} :
          buy(d, s, a, t).err = "BUY: Not for sale"

ListStep(t) ==
    \E s \in Addrs, p \in {50, 100} :
       /\ list_for_sale(data, s, 0, t, p).err = "ok"
       /\ data' = list_for_sale(data, s, 0, t, p).data

C29_ListingConsumedOnce ==
    /\ [](\A t \in DOMAIN data.tokens :
            /\ \A first \in ListingConsumers(data, t) :
                  first.err = "ok" =>
                     /\ data.tokens[t].for_sale
                     /\ ~first.data.tokens[t].for_sale
                     /\ ListingGone(first.data, t)
            /\ ~data.tokens[t].for_sale => ListingGone(data, t))
    /\ [][\A t \in 0 .. MaxTokens :
             (/\ t \in DOMAIN data'.tokens
              /\ data'.tokens[t].for_sale
              /\ t \in DOMAIN data.tokens => ~data.tokens[t].for_sale)
                => ListStep(t)]_vars

(* bob has bought the listing that admin could have bought as well: the *)
(* buy of admin now fails and the listing cannot be cancelled           *)
C29_Witness ==
    /\ 0 \in DOMAIN data.tokens
    /\ data.tokens[0].owner = "bob"
    /\ data.tokens[0].author = "alice"
    /\ attached = InitMintPrice + 50
    /\ DOMAIN data.offers = {}
    /\ buy(data, "admin", 50, 0).err = "BUY: Not for sale"
    /\ cancel_sale(data, "bob", 0, 0).err = "CANCEL: Not listed"
    /\ cancel_sale(data, "alice", 0, 0).err = "CANCEL: Not owner"

------------------------------------------------------------------------------
(* C30: make_offer calls by two different bidders on the same asset, run  *)
(* at the same time value, commute: in both orders each call has the same *)
(* outcome and the final state is the same, with both offers live and     *)
(* neither bidder's amount or pending balance affected by the other.      *)
OfferArgs == {<<50, 1>>, <<100, 2>>}

C30_MakeOfferCommutes ==
    \A t \in DOMAIN data.tokens, b1 \in Addrs, b2 \in Addrs,
       x1 \in OfferArgs, x2 \in OfferArgs :
       b1 # b2 =>
          LET alone1 == make_offer(data, b1, x1[1], now, t, x1[2])
              alone2 == make_offer(data, b2, x2[1], now, t, x2[2])
              after2 == make_offer(alone2.data, b1, x1[1], now, t, x1[2])
              after1 == make_offer(alone1.data, b2, x2[1], now, t, x2[2])
          IN /\ after2.err = alone1.err
             /\ after1.err = alone2.err
             /\ after1.data = after2.data
             /\ (alone1.err = "ok" /\ alone2.err = "ok") =>
                   /\ after1.data.offers[t][b1]
                         = [amount |-> x1[1], expires_at |-> now + x1[2]]
                   /\ after1.data.offers[t][b2]
                         = [amount |-> x2[1], expires_at |-> now + x2[2]]
                   /\ get_pending(after1.data, b1)
                         = get_pending(alone1.data, b1)
                   /\ get_pending(after1.data, b2)
                         = get_pending(alone2.data, b2)
                   /\ get_pending(alone1.data, b2) = get_pending(data, b2)
                   /\ get_pending(alone2.data, b1) = get_pending(data, b1)

(* bob and admin both have an offer of 50 on the asset of alice *)
C30_Witness ==
    /\ 0 \in DOMAIN data.tokens
    /\ data.tokens[0].owner = "alice"
    /\ OffersOf(data) = {<<0, "bob">>, <<0, "admin">>}
    /\ data.offers[0]["bob"].amount = 50
    /\ data.offers[0]["admin"].amount = 50
    /\ attached = InitMintPrice + 100
    /\ DOMAIN data.pending_payments = {}

------------------------------------------------------------------------------
(* C31: an offer made at time t with duration d > 0 has expires_at =      *)
(* t + d; accept_offer on it succeeds only at times strictly before       *)
(* t + d and fails with 'ACCEPT: Offer expired' at t + d and later; an    *)
(* expired offer stays in the book, its amount held, until its bidder     *)
(* cancels or replaces it or the burn of the asset refunds it.            *)
CancelOfferStep(s, t) ==
    /\ cancel_offer(data, s, 0, t).err = "ok"
    /\ data' = cancel_offer(data, s, 0, t).data

OfferDurations == 1 .. 2

ExpiryIsTimePlusDuration(d, time) ==
    \A s \in Addrs, t \in 0 .. MaxTokens, n \in OfferDurations :
       LET res == make_offer(d, s, 50, time, t, n) IN
       res.err = "ok" => res.data.offers[t][s].expires_at = time + n

AcceptedStrictlyBeforeExpiry(d) ==
    \A o \in OffersOf(d), time \in 0 .. (MaxTime + 2) :
       LET t == o[1]
           b == o[2]
       IN accept_offer(d, d.tokens[t].owner, 0, time, t, b).err
             = IF time < d.offers[t][b].expires_at
               THEN "ok"
               ELSE "ACCEPT: Offer expired"

ExpiredOfferStays ==
    \A o \in OffersOf(data) :
       LET t == o[1]
           b == o[2]
       IN (/\ now >= data.offers[t][b].expires_at
           /\ \/ o \notin OffersOf(data')
              \/ data'.offers[t][b] # data.offers[t][b])
          => \/ CancelOfferStep(b, t)
             \/ \E a \in {50, 100}, n \in OfferDurations :
                   MakeOfferStep(b, a, t, n)
             \/ BurnStep(data.tokens[t].owner, t)

C31_OfferExpiry ==
    /\ [](ExpiryIsTimePlusDuration(data, now)
          /\ AcceptedStrictlyBeforeExpiry(data))
    /\ [][ExpiredOfferStays]_vars

(* the offer of 50 that bob made at time 0 for a duration of 1 is in the *)
(* book at time 1, and alice can no longer accept it                     *)
C31_Witness ==
    /\ now = 1
    /\ <<0, "bob">> \in OffersOf(data)
    /\ data.offers[0]["bob"] = [amount |-> 50, expires_at |-> 1]
    /\ data.tokens[0].owner = "alice"
    /\ accept_offer(data, "alice", 0, now, 0, "bob").err
          = "ACCEPT: Offer expired"
    /\ attached = InitMintPrice + 50

------------------------------------------------------------------------------
(* C32: accept_offer does not check the price floor again: once the admin *)
(* has raised min_sale_price above the amount of a live, unexpired offer, *)
(* accept_offer by the owner still succeeds and settles the sale at the   *)
(* amount of the offer.                                                   *)
RaisedFloors == {100, 200}

SettledAt(d, e, price, author, seller, royalty_percent) ==
    LET royalty == (price * royalty_percent) \div 100
        fee == (price * d.platform_fee_percent) \div 100
        seller_amount == price - royalty - fee
    IN /\ e.collected_fees = d.collected_fees + fee
       /\ \A a \in Addrs :
             get_pending(e, a) = get_pending(d, a)
                + (IF a = author THEN royalty ELSE 0)
                + (IF a = seller THEN seller_amount ELSE 0)

AcceptedBelowFloor(d, time) ==
    \A o \in OffersOf(d) :
       LET t == o[1]
           b == o[2]
           token == d.tokens[t]
           offer == d.offers[t][b]
           res == accept_offer(d, token.owner, 0, time, t, b)
       IN (/\ ~d.paused
           /\ time < offer.expires_at
           /\ offer.amount < d.min_sale_price)
          => /\ res.err = "ok"
             /\ res.data.tokens[t].owner = b
             /\ b \notin DOMAIN res.data.offers[t]
             /\ SettledAt(d, res.data, offer.amount, token.author,
                          token.owner, token.royalty_percent)

C32_AcceptOfferIgnoresFloor ==
    /\ AcceptedBelowFloor(data, now)
    /\ \A p \in RaisedFloors :
          LET raised == update_min_sale_price(data, data.admin, 0, p) IN
          raised.err = "ok" /\ AcceptedBelowFloor(raised.data, now)

(* the floor is 100 and alice can accept the offer of 50 of bob *)
C32_Witness ==
    /\ data.min_sale_price = 100
    /\ ~data.paused
    /\ <<0, "bob">> \in OffersOf(data)
    /\ data.offers[0]["bob"].amount = 50
    /\ now < data.offers[0]["bob"].expires_at
    /\ data.tokens[0].owner = "alice"
    /\ accept_offer(data, "alice", 0, now, 0, "bob").err = "ok"

------------------------------------------------------------------------------
(* C33: update_price(id, new_price) succeeds only when the contract is    *)
(* not paused, no value is attached, the asset exists and is listed, the  *)
(* caller is its owner and new_price >= min_sale_price; on success only   *)
(* the price of that asset changes.                                       *)
UpdatePriceAllowed(d, s, a, t, p) ==
    /\ ~d.paused
    /\ a = 0
    /\ t \in DOMAIN d.tokens
    /\ d.tokens[t].for_sale
    /\ d.tokens[t].owner = s
    /\ p >= d.min_sale_price

NewPrices == {0, 50, 100, 200}

C33_UpdatePriceChangesPriceOnly ==
    \A s \in Addrs, a \in {0, 1}, t \in 0 .. MaxTokens, p \in NewPrices :
       LET res == update_price(data, s, a, t, p) IN
       /\ res.err = "ok" <=> UpdatePriceAllowed(data, s, a, t, p)
       /\ res.err = "ok" =>
             /\ res.data.tokens[t].price = p
             /\ res.data.tokens[t].for_sale
             /\ res.data.tokens[t].owner = data.tokens[t].owner
             /\ res.data = [data EXCEPT !.tokens[t].price = p]
             /\ res.ops = << >>

(* the asset of alice is listed for 50 under an offer of bob: alice may *)
(* raise the price to 100, bob may not, and no price below the floor    *)
(* is taken                                                             *)
C33_Witness ==
    /\ 0 \in DOMAIN data.tokens
    /\ data.tokens[0].owner = "alice"
    /\ data.tokens[0].for_sale
    /\ data.tokens[0].price = 50
    /\ <<0, "bob">> \in OffersOf(data)
    /\ update_price(data, "alice", 0, 0, 100).err = "ok"
    /\ update_price(data, "alice", 0, 0, 100).data.tokens[0].price = 100
    /\ update_price(data, "bob", 0, 0, 100).err = "UPDATE: Not owner"
    /\ update_price(data, "alice", 0, 0, 0).err = "UPDATE: Price below minimum"

------------------------------------------------------------------------------
(* C34: update_platform_fee, update_mint_price and update_min_sale_price  *)
(* each change their own configuration field and nothing else; every      *)
(* settlement after update_platform_fee(n) computes its fee with n, the   *)
(* acceptance of an offer made before the change included.                *)
NewFees == {0, 10, 20}

NewMintPrices == {0, 1, 2}

NewMinSalePrices == {0, 50, 100}

SettersChangeOwnField(d) ==
    /\ \A f \in NewFees :
          update_platform_fee(d, d.admin, 0, f)
             = Done([d EXCEPT !.platform_fee_percent = f], << >>)
    /\ \A p \in NewMintPrices :
          update_mint_price(d, d.admin, 0, p)
             = Done([d EXCEPT !.mint_price = p], << >>)
    /\ \A p \in NewMinSalePrices :
          update_min_sale_price(d, d.admin, 0, p)
             = Done([d EXCEPT !.min_sale_price = p], << >>)

FeeOf(price, n) == (price * n) \div 100

SettlesWithFee(d, n, time) ==
    /\ \A t \in DOMAIN d.tokens, s \in Addrs :
          LET res == buy(d, s, d.tokens[t].price, t) IN
          res.err = "ok" =>
             res.data.collected_fees
                = d.collected_fees + FeeOf(d.tokens[t].price, n)
    /\ \A o \in OffersOf(d) :
          LET t == o[1]
              b == o[2]
              res == accept_offer(d, d.tokens[t].owner, 0, time, t, b)
          IN res.err = "ok" =>
                res.data.collected_fees
                   = d.collected_fees + FeeOf(d.offers[t][b].amount, n)

C34_SettersAndFeeInForce ==
    /\ [](/\ SettersChangeOwnField(data)
          /\ SettlesWithFee(data, data.platform_fee_percent, now)
          /\ \A f \in NewFees :
                LET set == update_platform_fee(data, data.admin, 0, f).data
                IN /\ set.offers = data.offers
                   /\ SettlesWithFee(set, f, now))
    /\ [][\A s \in Addrs, t \in 0 .. MaxTokens :
            /\ BuyStep(s, data.tokens[t].price, t) =>
                  data'.collected_fees = data.collected_fees
                     + FeeOf(data.tokens[t].price,
                             data.platform_fee_percent)
            /\ \A b \in Addrs :
                  AcceptStep(s, t, b) =>
                     data'.collected_fees = data.collected_fees
                        + FeeOf(data.offers[t][b].amount,
                                data.platform_fee_percent)]_vars

(* the fee is 20 percent and the offer of 50 of bob on the asset minted *)
(* for 1 has been accepted with a fee of 10                              *)
C34_Witness ==
    /\ data.platform_fee_percent = 20
    /\ 0 \in DOMAIN data.tokens
    /\ data.tokens[0].owner = "bob"
    /\ 0 \in DOMAIN data.offers
    /\ DOMAIN data.offers[0] = {}
    /\ attached = InitMintPrice + 50
    /\ data.collected_fees = InitMintPrice + 10
    /\ get_pending(data, "alice") = 40

------------------------------------------------------------------------------
(* C35: in every reachable state no asset has a live offer whose bidder   *)
(* is the current owner of the asset, so no owner can accept an offer of  *)
(* their own.                                                             *)
OwnOffers(d) == {o \in OffersOf(d) : d.tokens[o[1]].owner = o[2]}

C35_NoOfferOfTheOwner ==
    /\ OwnOffers(data) = {}
    /\ \A t \in DOMAIN data.tokens :
          accept_offer(data, data.tokens[t].owner, 0, now, t,
                       data.tokens[t].owner).err # "ok"

------------------------------------------------------------------------------
(* C36: the owner of an asset changes only in a step whose caller is the  *)
(* current owner (transfer, accept_offer) or in a buy of the listed asset *)
(* whose caller attaches exactly the listed price; an asset is deleted    *)
(* only by a burn of its owner; its listing flag and price change only in *)
(* calls of its owner or in such a buy.                                   *)
OwnerCalls(d, s, time, t) ==
    {transfer(d, s, 0, t, to) : to \in Addrs}
    \cup {accept_offer(d, s, 0, time, t, b) : b \in Addrs}
    \cup {list_for_sale(d, s, 0, t, p) : p \in NewPrices}
    \cup {update_price(d, s, 0, t, p) : p \in NewPrices}
    \cup {cancel_sale(d, s, 0, t), burn(d, s, 0, t)}

(* What no address but the owner, and no payment but the listed price, *)
(* obtains                                                             *)
OnlyOwnerOrExactBuyer(d, time) ==
    \A t \in DOMAIN d.tokens :
       /\ \A s \in Addrs \ {d.tokens[t].owner} :
             \A res \in OwnerCalls(d, s, time, t) : res.err # "ok"
       /\ \A s \in Addrs, a \in {0, 1, 50, 100} :
             buy(d, s, a, t).err = "ok" =>
                d.tokens[t].for_sale /\ a = d.tokens[t].price

TransferStep(s, t) ==
    \E to \in Addrs :
       /\ transfer(data, s, 0, t, to).err = "ok"
       /\ data' = transfer(data, s, 0, t, to).data

ListingStepOf(s, t) ==
    \/ \E p \in NewPrices :
          \/ /\ list_for_sale(data, s, 0, t, p).err = "ok"
             /\ data' = list_for_sale(data, s, 0, t, p).data
          \/ /\ update_price(data, s, 0, t, p).err = "ok"
             /\ data' = update_price(data, s, 0, t, p).data
    \/ /\ cancel_sale(data, s, 0, t).err = "ok"
       /\ data' = cancel_sale(data, s, 0, t).data

ExactBuyStep(t) ==
    /\ data.tokens[t].for_sale
    /\ attached' = attached + data.tokens[t].price
    /\ \E s \in Addrs : BuyStep(s, data.tokens[t].price, t)

AcceptStepOf(s, t) == \E b \in Addrs : AcceptStep(s, t, b)

C36_OnlyOwnerDisposes ==
    /\ [](OnlyOwnerOrExactBuyer(data, now))
    /\ [][\A t \in DOMAIN data.tokens :
            LET owner == data.tokens[t].owner IN
            /\ t \notin DOMAIN data'.tokens => BurnStep(owner, t)
            /\ (Kept(t) /\ data'.tokens[t].owner # owner) =>
                  \/ TransferStep(owner, t)
                  \/ AcceptStepOf(owner, t)
                  \/ ExactBuyStep(t)
            /\ (/\ Kept(t)
                /\ \/ data'.tokens[t].for_sale # data.tokens[t].for_sale
                   \/ data'.tokens[t].price # data.tokens[t].price) =>
                  \/ ListingStepOf(owner, t)
                  \/ AcceptStepOf(owner, t)
                  \/ ExactBuyStep(t)]_vars

(* the asset of alice was sold for 50, and its new owner has burned it *)
C36_Witness ==
    /\ data.next_id = 1
    /\ DOMAIN data.tokens = {}
    /\ attached = InitMintPrice + 50
    /\ get_pending(data, "alice") + received["alice"] > 0
    /\ DOMAIN data.offers = {}

------------------------------------------------------------------------------
(* C37: the pending balance of an address decreases only in a successful  *)
(* withdraw called by that address, and the fee accumulator decreases     *)
(* only in a successful withdraw_fees: no call of another party and no    *)
(* admin operation lowers either.                                         *)
WithdrawStep(a) ==
    /\ withdraw(data, a, 0).err = "ok"
    /\ data' = withdraw(data, a, 0).data
    /\ WithdrawEmits(a)

WithdrawFeesStep ==
    /\ withdraw_fees(data, data.admin, 0).err = "ok"
    /\ data' = withdraw_fees(data, data.admin, 0).data
    /\ FeesPaidOut

(* withdraw takes the balance of its caller only, and the operations of *)
(* the admin take no balance at all                                     *)
LedgerKeptByOthers(d) ==
    /\ \A s \in Addrs :
          LET res == withdraw(d, s, 0) IN
          /\ res.data.collected_fees = d.collected_fees
          /\ \A o \in Addrs \ {s} :
                get_pending(res.data, o) = get_pending(d, o)
    /\ \A s \in Addrs :
          \A res \in AdminCalls(d, s) \cup {accept_admin(d, s, 0)} :
             /\ res.data.pending_payments = d.pending_payments
             /\ res.data.collected_fees < d.collected_fees
                   => res = withdraw_fees(d, s, 0) /\ s = d.admin

C37_BalancesLoweredByWithdrawOnly ==
    /\ [](LedgerKeptByOthers(data))
    /\ [][/\ \A a \in Addrs :
               get_pending(data', a) < get_pending(data, a)
                  => WithdrawStep(a)
          /\ data'.collected_fees < data.collected_fees
                => WithdrawFeesStep]_vars

(* alice, paid 48 for her asset and 10 of royalty on its resale, has *)
(* withdrawn her 58 while bob keeps his 38, and the fees were paid   *)
C37_Witness ==
    /\ received["alice"] = 58
    /\ get_pending(data, "alice") = 0
    /\ get_pending(data, "bob") = 38
    /\ data.collected_fees = 0
    /\ fees_paid > 0
    /\ ops = << >>

------------------------------------------------------------------------------
(* C38: every offer in the book refers to an asset that currently exists. *)
C38_OffersOnExistingAssets ==
    /\ DOMAIN data.offers \subseteq DOMAIN data.tokens
    /\ \A o \in OffersOf(data) : get_token(data, o[1]).err = "ok"

(* asset 0 was burned, bob has been refunded an offer of 100, and the *)
(* book holds an offer on asset 1 only                                *)
C38_Witness ==
    /\ data.next_id = 2
    /\ DOMAIN data.tokens = {1}
    /\ DOMAIN data.offers = {1}
    /\ DOMAIN data.offers[1] # {}
    /\ get_pending(data, "bob") = 100
    /\ attached = 2 * InitMintPrice + 150

------------------------------------------------------------------------------
(* C39: every asset that is not listed has price 0.                       *)
C39_UnlistedPriceIsZero ==
    \A t \in DOMAIN data.tokens :
       ~data.tokens[t].for_sale => data.tokens[t].price = 0

(* alice has accepted the offer of 50 of bob at a fee of 20 percent, *)
(* and the asset of bob is unlisted at price 0 under a floor of 100   *)
C39_Witness ==
    /\ 0 \in DOMAIN data.tokens
    /\ data.tokens[0].owner = "bob"
    /\ ~data.tokens[0].for_sale
    /\ data.tokens[0].price = 0
    /\ 0 \in DOMAIN data.offers
    /\ get_pending(data, "alice") = 40
    /\ data.min_sale_price = 100
    /\ attached = InitMintPrice + 50

------------------------------------------------------------------------------
(* C40: every entry of the pending ledger is strictly positive, so        *)
(* withdraw fails with 'WITHDRAW: Zero amount' in no reachable state.     *)
C40_PendingEntriesPositive ==
    /\ \A a \in DOMAIN data.pending_payments : data.pending_payments[a] > 0
    /\ \A s \in Addrs, a \in {0, 1} :
          withdraw(data, s, a).err # "WITHDRAW: Zero amount"

(* the asset of author alice, of royalty 0, was resold by bob to admin  *)
(* for 50 after alice had withdrawn: the royalty of 0 made no entry for *)
(* alice                                                                *)
C40_Witness ==
    /\ 0 \in DOMAIN data.tokens
    /\ data.tokens[0].author = "alice"
    /\ data.tokens[0].owner = "admin"
    /\ data.tokens[0].royalty_percent = 0
    /\ received["alice"] = 48
    /\ "alice" \notin DOMAIN data.pending_payments
    /\ get_pending(data, "bob") = 48
    /\ attached = InitMintPrice + 100

=============================================================================
